---- MODULE Spec2Model ----
(***************************************************************************)
(* SME tax-compliance simulation: SMEComplianceModel (src/model_final.py)  *)
(* and SMEAgent (src/agents.py).                                           *)
(*                                                                         *)
(* Numbers.  The program computes in floats; the model computes in fixed   *)
(* point.  Propensities, effects, rates and shares are integers in units   *)
(* of 1/PScale (1e-4); peer contributions and the decay factor are in      *)
(* units of 1/(PScale*FineScale) (1e-7), the resolution of the smallest    *)
(* constant of communicate().  Money is in thousands of euros for          *)
(* turnover and liability and in euro cents for intervention costs.        *)
(***************************************************************************)
EXTENDS Integers, Sequences, FiniteSets, TLC

VARIABLES
    cfg,                 \* the constructor's arguments (read-only afterwards)
    grid,                \* the network: agent index -> set of neighbour indices
    agents,              \* agent index -> SMEAgent attributes
    group_counts,        \* Counter of (size_cat, age_cat) built at construction
    underpayment_mean_if_noncompliant,  \* u, given or calibrated at construction
    step_count,
    current_week,
    total_compliance_costs,
    current_commun,
    sector_warnings,     \* dict (size_cat, age_cat) -> warning effect
    is_high_urgency_week,
    total_audited_this_step,
    rng,                 \* state of the seeded generator self.rng
    err,                 \* "ok", or the exception that ended the run
    twin,                \* a second run built with the same seed and arguments
    dashboard            \* dashboard/model_adapter.py: sectors and collected steps

vars == <<cfg, grid, agents, group_counts, underpayment_mean_if_noncompliant,
          step_count, current_week, total_compliance_costs, current_commun,
          sector_warnings, is_high_urgency_week, total_audited_this_step,
          rng, err, twin, dashboard>>

----------------------------------------------------------------------------
(* Bounds of the exploration *)

MaxStep == 24
LongMaxStep == 180
PairMaxStep == 6

(* Fixed-point scales *)
PScale == 10 * 1000
FineScale == 10 * 100

(* Program constants *)
WeeksPerYear == 52
TaxDeadlineWeek == 12
AuditDelayWeeks == 8
COOLDOWN_PERIOD == 156
NeverAudited == 0 - 999

----------------------------------------------------------------------------
(* Arithmetic helpers *)

Min(a, b) == IF a < b THEN a ELSE b
Max(a, b) == IF a > b THEN a ELSE b

\* x / d rounded to the nearest integer (d > 0), the fixed-point image of a
\* float quotient
RoundDiv(x, d) == (2 * x + d) \div (2 * d)

\* Python's round(): x / d rounded half to even (d > 0)
PyRound_mut(x, d) == x \div d

PyRound(x, d) ==
    LET q == x \div d
        r == x % d
    IN  IF 2 * r < d THEN q
        ELSE IF 2 * r > d THEN q + 1
        ELSE IF q % 2 = 0 THEN q ELSE q + 1

\* floor(a * x / d) for a >= 0, d > 0, without forming a * x
MulDiv(a, x, d) == a * (x \div d) + (a * (x % d)) \div d

clip01_mut(x) == Min(PScale, x)
clip01(x) == Max(0, Min(PScale, x))

RECURSIVE SumSeq(_)
SumSeq(s) == IF s = <<>> THEN 0 ELSE Head(s) + SumSeq(Tail(s))

RECURSIVE SeqOfSet(_)
\* the elements of a set of integers in ascending order
SeqOfSet(S) ==
    IF S = {} THEN <<>>
    ELSE LET m == CHOOSE x \in S : \A y \in S : x <= y
         IN  <<m>> \o SeqOfSet(S \ {m})

RemoveAt(s, i) == SubSeq(s, 1, i - 1) \o SubSeq(s, i + 1, Len(s))

Range(s) == {s[i] : i \in DOMAIN s}

Perms(n) == {p \in [1..n -> 1..n] : \A i, j \in 1..n : i # j => p[i] # p[j]}

----------------------------------------------------------------------------
(* The seeded generator self.rng.  Its state after construction is fixed by *)
(* the seed; every later draw advances it deterministically.               *)

RngMod == 8 * 8
NextRng(r) == (13 * r + 11) % RngMod

\* rng.random() < num / den, for the draw held in state r
DrawBelow(r, num, den) == r * den < num * RngMod

\* rng.integers(n) style index in 1..n for the draw held in state r
DrawIndex(r, n) == ((r * n) \div RngMod) + 1

RECURSIVE SampleNoReplace(_, _, _)
\* rng.choice(list, size = k, replace = False): k distinct elements of list
SampleNoReplace(list, k, r) ==
    IF k = 0 THEN [out |-> <<>>, rng |-> r]
    ELSE LET i    == DrawIndex(r, Len(list))
             rest == SampleNoReplace(RemoveAt(list, i), k - 1, NextRng(r))
         IN  [out |-> <<list[i]>> \o rest.out, rng |-> rest.rng]

RECURSIVE ShuffleFrom(_, _, _)
\* rng.shuffle(list): Fisher-Yates from position n down to 2
ShuffleFrom(list, n, r) ==
    IF n <= 1 THEN [out |-> list, rng |-> r]
    ELSE LET j  == DrawIndex(r, n)
             sw == [list EXCEPT ![n] = list[j], ![j] = list[n]]
         IN  ShuffleFrom(sw, n - 1, NextRng(r))

Shuffle(list, r) == ShuffleFrom(list, Len(list), r)

----------------------------------------------------------------------------
(* Constructor arguments *)

SizeSharesDefault == << <<"Micro", 9683>>, <<"Small", 248>>, <<"Medium", 53>> >>
AgeSharesDefault == << <<"Young", 377>>, <<"Mature", 241>>, <<"Old", 382>> >>

Keys(shares) == [i \in DOMAIN shares |-> shares[i][1]]
Weights(shares) == [i \in DOMAIN shares |-> shares[i][2]]

GroupKeys(c) ==
    {<<c.size_shares[i][1], c.age_shares[j][1]>> :
        i \in DOMAIN c.size_shares, j \in DOMAIN c.age_shares}

UniformRates(c, rate) == [k \in GroupKeys(c) |-> rate]

AuditTypesDefault ==
    [Light    |-> [effect |-> 4500, cost |-> 234000],
     Standard |-> [effect |-> 4500, cost |-> 234000],
     Deep     |-> [effect |-> 9000, cost |-> 468000]]

AuditTypesExtreme ==
    [Light    |-> [effect |-> 0 - 5000, cost |-> 100],
     Standard |-> [effect |-> 4500, cost |-> 200],
     Deep     |-> [effect |-> 25000, cost |-> 300]]

ChannelEffectsDefault ==
    [physical_letter |-> 30, email |-> 80, warning_letter |-> 200]

ChannelEffectsExtreme ==
    [physical_letter |-> 0 - 3000, email |-> 9000, warning_letter |-> 15000]

InterventionCostsDefault ==
    [email |-> 39, physical_letter |-> 65, warning_letter |-> 19684]

ScheduleDefault ==
    (8 :> <<"physical_letter", "email">>) @@ (6 :> <<"email">>)
    @@ (2 :> <<"physical_letter">>) @@ (1 :> <<"email">>)

ScheduleUrgentTwice == (1 :> <<"email", "email">>) @@ (12 :> <<"email">>)

ScheduleEmpty == << >>

NoneGiven == [given |-> FALSE, value |-> 0]

BaseConfig ==
    [N |-> 3,
     size_shares |-> SizeSharesDefault,
     age_shares |-> AgeSharesDefault,
     C_target |-> 6930,
     m_size |-> 500,
     m_age |-> 500,
     audit_rates |-> [k \in {<<"Micro", "Young">>, <<"Micro", "Old">>,
                             <<"Medium", "Old">>} |-> 5000],
     audit_types |-> AuditTypesDefault,
     channel_effects |-> ChannelEffectsDefault,
     intervention_costs |-> InterventionCostsDefault,
     communication_schedule |-> ScheduleDefault,
     tax_gap_target_rate |-> 500,
     underpayment_mean_if_noncompliant |-> NoneGiven,
     decay_factor |-> 5000,
     n_neighbours |-> 0,
     warning_visit_week |-> 35]

\* The configurations explored.  Each differs from BaseConfig, the defaults
\* of src/simulate.py scaled to a small population, in the arguments named.

\* no interventions: audit rates 0, empty schedule
ConfigNoIntervention ==
    [BaseConfig EXCEPT !.audit_rates = UniformRates(BaseConfig, 0),
                       !.communication_schedule = ScheduleEmpty,
                       !.N = 2, !.n_neighbours = 4,
                       !.warning_visit_week = 5]

ConfigNoInterventionNoPeers ==
    [BaseConfig EXCEPT !.audit_rates = UniformRates(BaseConfig, 0),
                       !.communication_schedule = ScheduleEmpty,
                       !.decay_factor = 200000]

\* rates above 1, extreme effects, strong decay, two agents
ConfigExtreme ==
    [BaseConfig EXCEPT !.N = 2, !.n_neighbours = 4,
                       !.audit_rates = UniformRates(BaseConfig, 15000),
                       !.audit_types = AuditTypesExtreme,
                       !.channel_effects = ChannelEffectsExtreme,
                       !.decay_factor = 5000000,
                       !.warning_visit_week = 11]

\* every group at the lower end of the mu table
ConfigLowTarget ==
    [BaseConfig EXCEPT !.C_target = 0,
                       !.audit_rates = UniformRates(BaseConfig, 10000),
                       !.communication_schedule = ScheduleUrgentTwice,
                       !.warning_visit_week = 20]

\* every group at the upper end of the mu table
ConfigHighTarget ==
    [BaseConfig EXCEPT !.C_target = PScale, !.N = 2, !.n_neighbours = 4,
                       !.decay_factor = 0,
                       !.tax_gap_target_rate = 3000]

\* underpayment intensity supplied by the caller
ConfigGivenU ==
    [BaseConfig EXCEPT !.N = 2,
                       !.underpayment_mean_if_noncompliant =
                            [given |-> TRUE, value |-> 3000],
                       !.n_neighbours = 1, !.decay_factor = 0]

\* a rate table that also names a group that is not a (size, age) category
ConfigUndefinedRateKey ==
    [ConfigGivenU EXCEPT !.audit_rates =
          UniformRates(BaseConfig, 5000) @@ (<<"Large", "Young">> :> 10000),
                         !.warning_visit_week = 20]

\* size shares that sum to 0
ConfigZeroShares ==
    [BaseConfig EXCEPT !.N = 2,
                       !.size_shares = << <<"Micro", 0>>, <<"Small", 0>>,
                                          <<"Medium", 0>> >>]

Configs ==
    {BaseConfig, ConfigNoIntervention, ConfigNoInterventionNoPeers, ConfigExtreme,
     ConfigLowTarget, ConfigHighTarget, ConfigGivenU,
     ConfigUndefinedRateKey, ConfigZeroShares}

----------------------------------------------------------------------------
(* Construction: SMEComplianceModel.__init__ *)

\* position of a category in its declaration order, from 0
Score(shares, cat) == (CHOOSE i \in DOMAIN shares : shares[i][1] = cat) - 1

\* sum_i prob_i * score_i with prob = share / sum(shares), in units of 1/PScale
MeanScore(shares) ==
    RoundDiv(SumSeq([i \in DOMAIN shares |-> shares[i][2] * (i - 1)]) * PScale,
             SumSeq(Weights(shares)))

mu_table(c) ==
    [k \in GroupKeys(c) |->
        LET S_tilde == Score(c.size_shares, k[1]) * PScale - MeanScore(c.size_shares)
            A_tilde == Score(c.age_shares, k[2]) * PScale - MeanScore(c.age_shares)
        IN  clip01(c.C_target + RoundDiv(c.m_size * S_tilde, PScale)
                              + RoundDiv(c.m_age * A_tilde, PScale))]

prob_advisor(s) ==
    IF s = "Medium" THEN PScale
    ELSE IF s = "Small" THEN 9800
    ELSE 7430

AdvisorShift == 200

\* the group mean moved by the advisor flag, as used for the Beta draw
AdjustedMu(mu, has_advisor) ==
    IF has_advisor THEN Min(PScale, mu + AdvisorShift)
    ELSE Max(0, mu - AdvisorShift)

InitialPropensity_mut(mu, has_advisor, beta_draw) == beta_draw

\* beta_draw stands for the value rng.beta(alpha, beta) returns, in [0, 1]
InitialPropensity(mu, has_advisor, beta_draw) ==
    LET m == AdjustedMu(mu, has_advisor)
    IN  IF m <= 0 THEN 0
        ELSE IF m >= PScale THEN PScale
        ELSE beta_draw

TurnoverBand(s) ==
    IF s = "Micro" THEN 80..400
    ELSE IF s = "Small" THEN 400..2500
    ELSE 2500..20000

TaxRateBand == 2999..3001

\* What the per-agent draws of the constructor can return: the categories, the
\* uniform draw compared with prob_advisor, the Beta draw, turnover, tax rate.
AgentDraws ==
    { [size_cat |-> "Micro", age_cat |-> "Young", adv_draw |-> 9900,
       beta_draw |-> 3000, turnover |-> 100, tax_rate |-> 3000],
      [size_cat |-> "Micro", age_cat |-> "Young", adv_draw |-> 5000,
       beta_draw |-> 8000, turnover |-> 400, tax_rate |-> 3000],
      [size_cat |-> "Micro", age_cat |-> "Old", adv_draw |-> 9900,
       beta_draw |-> 6000, turnover |-> 200, tax_rate |-> 3000],
      [size_cat |-> "Medium", age_cat |-> "Old", adv_draw |-> 9900,
       beta_draw |-> 9990, turnover |-> 5000, tax_rate |-> 3000] }

PossibleDraw(c, d) ==
    /\ \E i \in DOMAIN c.size_shares :
          c.size_shares[i][1] = d.size_cat /\ c.size_shares[i][2] > 0
    /\ \E j \in DOMAIN c.age_shares :
          c.age_shares[j][1] = d.age_cat /\ c.age_shares[j][2] > 0
    /\ d.turnover \in TurnoverBand(d.size_cat)
    /\ d.tax_rate \in TaxRateBand
    /\ d.beta_draw \in 0..PScale

NewAgent(c, d) ==
    LET adv == d.adv_draw < prob_advisor(d.size_cat)
    IN  [size_cat |-> d.size_cat,
         age_cat |-> d.age_cat,
         propensity |-> InitialPropensity(mu_table(c)[<<d.size_cat, d.age_cat>>],
                                          adv, d.beta_draw),
         turnover |-> d.turnover,
         tax_rate |-> d.tax_rate,
         has_advisor |-> adv,
         audit_impact |-> 0,
         last_audit_step |-> NeverAudited]

\* nx.erdos_renyi_graph(n = N, p = n_neighbours / N): every pair is joined with
\* probability p, so p >= 1 gives the complete graph and p <= 0 the empty one
Networks(c) ==
    LET ids   == 1..c.N
        pairs == {e \in SUBSET ids : Cardinality(e) = 2}
        edges == IF c.n_neighbours >= c.N THEN {pairs}
                 ELSE IF c.n_neighbours <= 0 THEN {{}}
                 ELSE SUBSET pairs
    IN  {[i \in ids |-> {j \in ids : {i, j} \in E}] : E \in edges}

CountGroups(ags) ==
    LET keys == {<<ags[i].size_cat, ags[i].age_cat>> : i \in DOMAIN ags}
    IN  [k \in keys |->
            Cardinality({i \in DOMAIN ags : <<ags[i].size_cat, ags[i].age_cat>> = k})]

----------------------------------------------------------------------------
(* Tax-gap accounting *)

_agent_liability(a) == RoundDiv(a.turnover * a.tax_rate, PScale)

AgentIds(ags) == SeqOfSet(DOMAIN ags)

compute_weighted_noncompliance_mut(ags) ==
    RoundDiv(SumSeq([i \in DOMAIN ags |-> PScale - ags[i].propensity]), Len(ags))

compute_weighted_noncompliance(ags) ==
    LET total_L   == SumSeq([i \in DOMAIN ags |-> _agent_liability(ags[i])])
        total_L_p == SumSeq([i \in DOMAIN ags |->
                          _agent_liability(ags[i]) * (PScale - ags[i].propensity)])
    IN  IF total_L > 0 THEN RoundDiv(total_L_p, total_L) ELSE 0

expected_unpaid_tax_mut(a, u) == _agent_liability(a) * (PScale - a.propensity)

\* liability * (1 - propensity) * u, in units of 1/PScale of the money unit
expected_unpaid_tax(a, u) ==
    MulDiv(u, _agent_liability(a) * (PScale - a.propensity), PScale)

compute_tax_gap_rate(ags, u) ==
    LET total_L      == SumSeq([i \in DOMAIN ags |-> _agent_liability(ags[i])])
        total_unpaid == SumSeq([i \in DOMAIN ags |-> expected_unpaid_tax(ags[i], u)])
    IN  IF total_L > 0 THEN RoundDiv(total_unpaid, total_L) ELSE 0

_calibrate_tax_gap_link_mut(c, ags) ==
    IF c.underpayment_mean_if_noncompliant.given
    THEN c.underpayment_mean_if_noncompliant.value
    ELSE LET w_noncomp == compute_weighted_noncompliance(ags)
         IN  IF w_noncomp <= 0 THEN 0
             ELSE RoundDiv(c.tax_gap_target_rate * PScale, w_noncomp)

_calibrate_tax_gap_link(c, ags) ==
    IF c.underpayment_mean_if_noncompliant.given
    THEN c.underpayment_mean_if_noncompliant.value
    ELSE LET w_noncomp == compute_weighted_noncompliance(ags)
         IN  IF w_noncomp <= 0 THEN 0
             ELSE Max(0, Min(PScale,
                      RoundDiv(c.tax_gap_target_rate * PScale, w_noncomp)))

----------------------------------------------------------------------------
(* State after construction *)

SeedStates == {0, 21, 43}

\* the mutable state of one run
Run(ags, sc, cw, cost, commun, warn, urgent, audited, r, e) ==
    [agents |-> ags, step_count |-> sc, current_week |-> cw,
     total_compliance_costs |-> cost, current_commun |-> commun,
     sector_warnings |-> warn, is_high_urgency_week |-> urgent,
     total_audited_this_step |-> audited, rng |-> r, err |-> e]

Cur == Run(agents, step_count, current_week, total_compliance_costs,
           current_commun, sector_warnings, is_high_urgency_week,
           total_audited_this_step, rng, err)

NoWarnings == << >>

\* the model used without the dashboard adapter
NoDashboard == [sector |-> << >>, steps |-> << >>]

\* __init__ divides the shares by their sum; with a sum of 0 the probabilities
\* are NaN and the first rng.choice(..., p = probs) raises ValueError
construct_err(c) ==
    IF SumSeq(Weights(c.size_shares)) = 0 \/ SumSeq(Weights(c.age_shares)) = 0
    THEN "ValueError"
    ELSE "ok"

\* no model object exists after a constructor that raised
FailedConstruction(c, seed) ==
    /\ cfg = c
    /\ grid = << >>
    /\ agents = << >>
    /\ group_counts = << >>
    /\ underpayment_mean_if_noncompliant = 0
    /\ step_count = 0
    /\ current_week = 0
    /\ total_compliance_costs = 0
    /\ current_commun = 0
    /\ sector_warnings = NoWarnings
    /\ is_high_urgency_week = FALSE
    /\ total_audited_this_step = 0
    /\ rng = seed
    /\ err = construct_err(c)
    /\ twin = Run(<< >>, 0, 0, 0, 0, NoWarnings, FALSE, 0, seed, construct_err(c))
    /\ dashboard = NoDashboard

\* the model object built from arguments c when the per-agent draws, the
\* network and the state of self.rng come out as given
ConstructedAs(c, draws, g, seed) ==
    LET ags == [i \in 1..c.N |-> NewAgent(c, draws[i])]
    IN  /\ cfg = c
        /\ grid = g
        /\ agents = ags
        /\ group_counts = CountGroups(ags)
        /\ underpayment_mean_if_noncompliant = _calibrate_tax_gap_link(c, ags)
        /\ step_count = 0
        /\ current_week = 0
        /\ total_compliance_costs = 0
        /\ current_commun = 0
        /\ sector_warnings = NoWarnings
        /\ is_high_urgency_week = FALSE
        /\ total_audited_this_step = 0
        /\ rng = seed
        /\ err = "ok"
        /\ twin = Run(ags, 0, 0, 0, 0, NoWarnings, FALSE, 0, seed, "ok")
        /\ dashboard = NoDashboard

Constructed(configs, seeds) ==
    \E c \in {x \in configs : construct_err(x) = "ok"} :
    \E draws \in [1..c.N -> {d \in AgentDraws : PossibleDraw(c, d)}] :
    \E g \in Networks(c) :
    \E seed \in seeds :
        ConstructedAs(c, draws, g, seed)

InitWith(configs, seeds) ==
    \/ Constructed(configs, seeds)
    \/ \E c \in {x \in configs : construct_err(x) # "ok"} :
       \E seed \in seeds : FailedConstruction(c, seed)

Init == InitWith(Configs, SeedStates)

----------------------------------------------------------------------------
(* compute_group_mean, in units of 1/(PScale*FineScale); 0 for an empty group *)

GroupMembers(ags, size_cat, age_cat, adv) ==
    {i \in DOMAIN ags :
        /\ ags[i].size_cat = size_cat
        /\ ags[i].age_cat = age_cat
        /\ adv \in {"None", IF ags[i].has_advisor THEN "Advisor" ELSE "NoAdvisor"}}

compute_group_mean_adv(ags, size_cat, age_cat, adv) ==
    LET members == SeqOfSet(GroupMembers(ags, size_cat, age_cat, adv))
    IN  IF members = <<>> THEN 0
        ELSE RoundDiv(SumSeq([k \in DOMAIN members |-> ags[members[k]].propensity])
                        * FineScale, Len(members))

compute_group_mean_mut(ags, size_cat, age_cat) ==
    compute_group_mean_adv(ags, size_cat, age_cat, "None")
    + Cardinality({i \in GroupMembers(ags, size_cat, age_cat, "None") :
                      ags[i].audit_impact # 0})

compute_group_mean(ags, size_cat, age_cat) ==
    compute_group_mean_adv(ags, size_cat, age_cat, "None")

----------------------------------------------------------------------------
(* SMEAgent.communicate and SMEAgent.step *)

AuditShock == 0 - 5000000
BombCrater == 5000
DeadlineChatter == 50
IdleChatter == 5

time_since_audit_mut(m, communicator) ==
    communicator.last_audit_step - m.step_count + 1

\* line 86: the neighbour's last audit tick minus the current tick
time_since_audit_of(m, communicator) ==
    communicator.last_audit_step - m.step_count

RECURSIVE communicate_loop(_, _, _, _, _)
\* the for loop of communicate() over the neighbours still to visit
communicate_loop(m, nbs, comm_effect, r, e) ==
    IF nbs = <<>> \/ e # "ok" THEN [effect |-> comm_effect, rng |-> r, err |-> e]
    ELSE LET communicator     == m.agents[Head(nbs)]
             time_since_audit == time_since_audit_of(m, communicator)
             ahead            == WeeksPerYear - m.current_week
         IN  IF time_since_audit = 1
             THEN communicate_loop(m, Tail(nbs), comm_effect + BombCrater, r, e)
             ELSE IF time_since_audit > 48 /\ time_since_audit < 105
             \* math is not imported in agents.py
             THEN communicate_loop(m, Tail(nbs), comm_effect, r, "NameError")
             ELSE IF DrawBelow(r, ahead, WeeksPerYear)
             THEN communicate_loop(m, Tail(nbs),
                                   comm_effect + DeadlineChatter * ahead,
                                   NextRng(r), e)
             ELSE IF DrawBelow(NextRng(r), 1, WeeksPerYear)
             THEN communicate_loop(m, Tail(nbs), comm_effect + IdleChatter,
                                   NextRng(NextRng(r)), e)
             ELSE communicate_loop(m, Tail(nbs), comm_effect,
                                   NextRng(NextRng(r)), e)

SelfShock_mut(m, i) ==
    IF m.step_count - m.agents[i].last_audit_step = 0 THEN AuditShock ELSE 0

\* lines 79-82: the shock an agent audited in the previous tick gives itself
SelfShock(m, i) ==
    IF m.step_count - m.agents[i].last_audit_step = 1 THEN AuditShock ELSE 0

communicate(m, g, i) ==
    communicate_loop(m, SeqOfSet(g[i]), SelfShock(m, i), m.rng, "ok")

TargetedComm(m, a) ==
    LET key == <<a.size_cat, a.age_cat>>
    IN  IF key \in DOMAIN m.sector_warnings THEN m.sector_warnings[key] ELSE 0

AgentDecay_mut(c, a) == RoundDiv(c.decay_factor * 105, 100)

AgentDecay(c, a) ==
    IF a.has_advisor THEN RoundDiv(c.decay_factor * 95, 100)
    ELSE RoundDiv(c.decay_factor * 105, 100)

Improvement_mut(a, audit_effect, global_comm, targeted_comm, inter_comm) ==
    (PScale - a.propensity) * (audit_effect + global_comm)
        + MulDiv(PScale - a.propensity, inter_comm, FineScale)

\* (1 - propensity) * (audit_effect + d), in units of 1/(PScale*PScale)
Improvement(a, audit_effect, global_comm, targeted_comm, inter_comm) ==
    (PScale - a.propensity) * (audit_effect + global_comm + targeted_comm)
        + MulDiv(PScale - a.propensity, inter_comm, FineScale)

Deterioration(c, a) == MulDiv(a.propensity, AgentDecay(c, a), FineScale)

\* what line 170 leaves in audit_impact: it assigns audited_last_step, an
\* attribute nothing reads, so audit_impact keeps its value
AuditImpactAfterStep(a) == a.audit_impact

UpdatedPropensity(c, a, inter_comm, m) ==
    clip01(RoundDiv(a.propensity * PScale
                      + Improvement(a, a.audit_impact, m.current_commun,
                                    TargetedComm(m, a), inter_comm)
                      - Deterioration(c, a), PScale))

AgentStep_mut(c, g, m, i) ==
    LET inter == communicate(m, g, i)
    IN  [m EXCEPT !.agents[i].propensity =
                      UpdatedPropensity(c, m.agents[i], inter.effect, m),
                  !.rng = inter.rng,
                  !.total_compliance_costs = @ + 1]

\* SMEAgent.step of agent i in run state m
AgentStep(c, g, m, i) ==
    LET a     == m.agents[i]
        inter == communicate(m, g, i)
    IN  IF inter.err # "ok"
        THEN [m EXCEPT !.rng = inter.rng, !.err = inter.err]
        ELSE LET p == UpdatedPropensity(c, a, inter.effect, m)
             IN  IF m.is_high_urgency_week
                 \* comm_sensitivity is never initialised in agents.py
                 THEN [m EXCEPT !.agents[i].propensity = p,
                                !.rng = inter.rng, !.err = "AttributeError"]
                 ELSE [m EXCEPT !.agents[i].propensity = p,
                                !.agents[i].audit_impact = AuditImpactAfterStep(a),
                                !.rng = inter.rng]

RECURSIVE shuffle_do_step(_, _, _, _)
\* self.agents.shuffle_do("step") for the agents of order still to step
shuffle_do_step(c, g, m, order) ==
    IF order = <<>> \/ m.err # "ok" THEN m
    ELSE shuffle_do_step(c, g, AgentStep(c, g, m, Head(order)), Tail(order))

----------------------------------------------------------------------------
(* SMEComplianceModel.auditing_strategy *)

GroupOf(a) == <<a.size_cat, a.age_cat>>

RECURSIVE FirstSeen(_, _, _)
\* the keys of the groups dict in insertion order: first occurrence among agents
FirstSeen(ags, ids, seen) ==
    IF ids = <<>> THEN seen
    ELSE LET k == GroupOf(ags[Head(ids)])
         IN  FirstSeen(ags, Tail(ids),
                       IF k \in Range(seen) THEN seen ELSE Append(seen, k))

GroupOrder(ags) == FirstSeen(ags, AgentIds(ags), <<>>)

Members(ags, key) == SeqOfSet({i \in DOMAIN ags : GroupOf(ags[i]) = key})

\* self.tax_deadline_week and self.audit_delay_weeks: 12 and 8 as __init__
\* sets them, unless dashboard/model_adapter.py has overridden them with the
\* values of its config
tax_deadline_week(c) ==
    IF "tax_deadline_week" \in DOMAIN c THEN c.tax_deadline_week ELSE TaxDeadlineWeek

audit_delay_weeks(c) ==
    IF "audit_delay_weeks" \in DOMAIN c THEN c.audit_delay_weeks ELSE AuditDelayWeeks

audit_week(c) == tax_deadline_week(c) + audit_delay_weeks(c)

is_audit_campaign_mut(c, m) ==
    m.step_count % WeeksPerYear = audit_week(c) % WeeksPerYear

is_audit_campaign(c, m) == m.step_count % WeeksPerYear = audit_week(c)

BaseRate(c, key) == IF key \in DOMAIN c.audit_rates THEN c.audit_rates[key] ELSE 0

target_audits_mut(c, m, key) ==
    PyRound(BaseRate(c, key) * Len(Members(m.agents, key)), PScale)

target_audits(c, m, key) ==
    LET current_rate == IF is_audit_campaign(c, m) THEN BaseRate(c, key) ELSE 0
    IN  PyRound(current_rate * Len(Members(m.agents, key)), PScale)

Eligible_mut(m, a) == TRUE

Eligible(m, a) == m.step_count - a.last_audit_step >= COOLDOWN_PERIOD

group_eligible_mut(m, key) ==
    SelectSeq(Members(m.agents, key),
              LAMBDA i : m.step_count - m.agents[i].last_audit_step > COOLDOWN_PERIOD)

group_eligible(m, key) ==
    SelectSeq(Members(m.agents, key), LAMBDA i : Eligible(m, m.agents[i]))

n_actual(c, m, key) == Min(Len(group_eligible(m, key)), target_audits(c, m, key))

RECURSIVE SelectGroups(_, _, _, _, _)
\* the loop over groups.items(): extends eligible_for_audit group by group
SelectGroups(c, m, keys, chosen, r) ==
    IF keys = <<>> THEN [out |-> chosen, rng |-> r]
    ELSE LET n == n_actual(c, m, Head(keys))
         IN  IF n > 0
             THEN LET pick == SampleNoReplace(group_eligible(m, Head(keys)), n, r)
                  IN  SelectGroups(c, m, Tail(keys), chosen \o pick.out, pick.rng)
             ELSE SelectGroups(c, m, Tail(keys), chosen, r)

AuditTypeKeys(c) ==
    SelectSeq(<<"Light", "Standard", "Deep">>, LAMBDA k : k \in DOMAIN c.audit_types)

ApplyAudit_mut(c, m, i, choice_name) ==
    IF choice_name \notin DOMAIN c.audit_types THEN [m EXCEPT !.err = "KeyError"]
    ELSE [m EXCEPT !.agents[i].audit_impact = c.audit_types[choice_name].effect,
                   !.agents[i].last_audit_step = m.step_count]

\* "Apply Audit": effect, tick and cost of tier choice_name for agent i;
\* a tier name missing from audit_types raises KeyError
ApplyAudit(c, m, i, choice_name) ==
    IF choice_name \notin DOMAIN c.audit_types THEN [m EXCEPT !.err = "KeyError"]
    ELSE LET props == c.audit_types[choice_name]
         IN  [m EXCEPT !.agents[i].audit_impact = props.effect,
                       !.agents[i].last_audit_step = m.step_count,
                       !.total_compliance_costs = @ + props.cost]

AuditRandomGroup_mut(c, m, random_group) == m

RECURSIVE AuditRandomGroup(_, _, _)
\* the loop over random_group; rng.choice of an empty list of tier names
\* raises ValueError
AuditRandomGroup(c, m, random_group) ==
    IF random_group = <<>> \/ m.err # "ok" THEN m
    ELSE IF AuditTypeKeys(c) = <<>> THEN [m EXCEPT !.err = "ValueError"]
    ELSE LET keys        == AuditTypeKeys(c)
             choice_name == keys[DrawIndex(m.rng, Len(keys))]
         IN  AuditRandomGroup(c,
                 ApplyAudit(c, [m EXCEPT !.rng = NextRng(m.rng)],
                            Head(random_group), choice_name),
                 Tail(random_group))

RECURSIVE InsertByKey(_, _, _)
\* insert x after every element whose key is <= key[x]: a stable sort step
InsertByKey(sorted, x, key) ==
    IF sorted = <<>> THEN <<x>>
    ELSE IF key[Head(sorted)] <= key[x]
         THEN <<Head(sorted)>> \o InsertByKey(Tail(sorted), x, key)
         ELSE <<x>> \o sorted

RECURSIVE StableSort(_, _, _)
StableSort(list, sorted, key) ==
    IF list = <<>> THEN sorted
    ELSE StableSort(Tail(list), InsertByKey(sorted, Head(list), key), key)

\* targeted_group.sort(key = group mean of the agent's (size, age) group)
SortByGroupMean(ags, targeted_group) ==
    StableSort(targeted_group, <<>>,
               [i \in DOMAIN ags |->
                   compute_group_mean(ags, ags[i].size_cat, ags[i].age_cat)])

TargetedTier_mut(i, n_t) ==
    IF 3 * i <= n_t THEN "Deep"
    ELSE IF 3 * i <= 2 * n_t THEN "Standard"
    ELSE "Light"

\* tier of position i (from 0) in a targeted group of n_t agents
TargetedTier(i, n_t) ==
    IF 3 * i < n_t THEN "Deep"
    ELSE IF 3 * i < 2 * n_t THEN "Standard"
    ELSE "Light"

RECURSIVE AuditTargetedGroup_mut(_, _, _, _, _)
AuditTargetedGroup_mut(c, m, targeted_group, i, n_t) ==
    IF i >= n_t \/ m.err # "ok" THEN m
    ELSE AuditTargetedGroup_mut(c,
             [ApplyAudit(c, m, targeted_group[i + 1], TargetedTier(i, n_t))
                 EXCEPT !.agents[targeted_group[i + 1]].last_audit_step =
                            m.step_count + 1],
             targeted_group, i + 1, n_t)

RECURSIVE AuditTargetedGroup(_, _, _, _, _)
AuditTargetedGroup(c, m, targeted_group, i, n_t) ==
    IF i >= n_t \/ m.err # "ok" THEN m
    ELSE AuditTargetedGroup(c,
             ApplyAudit(c, m, targeted_group[i + 1], TargetedTier(i, n_t)),
             targeted_group, i + 1, n_t)

AuditedFraction(count, N) == RoundDiv(count * PScale, N)

\* eligible_for_audit once the loop over the groups is done
eligible_for_audit(c, m) == SelectGroups(c, m, GroupOrder(m.agents), <<>>, m.rng)

mid_point_mut(list) == (Len(list) + 1) \div 2

mid_point(list) == Len(list) \div 2

\* the two halves of the shuffled list
random_group(list) == SubSeq(list, 1, mid_point(list))
targeted_group(list) == SubSeq(list, mid_point(list) + 1, Len(list))

auditing_strategy_mut(c, m) == [m EXCEPT !.agents[1].has_advisor = ~@]

auditing_strategy(c, m) ==
    LET sel == eligible_for_audit(c, m)
    IN  IF sel.out = <<>>
        THEN [m EXCEPT !.rng = sel.rng,
                       !.total_audited_this_step = AuditedFraction(0, c.N)]
        ELSE LET sh     == Shuffle(sel.out, sel.rng)
                 sorted == SortByGroupMean(m.agents, targeted_group(sh.out))
                 m1 == AuditRandomGroup(c, [m EXCEPT !.rng = sh.rng],
                                        random_group(sh.out))
                 m2 == AuditTargetedGroup(c, m1, sorted, 0, Len(sorted))
             IN  IF m2.err # "ok" THEN m2
                 ELSE [m2 EXCEPT !.total_audited_this_step =
                                     AuditedFraction(Len(sel.out), c.N)]

----------------------------------------------------------------------------
(* SMEComplianceModel.step *)

weeks_until_deadline_mut(c, m) == tax_deadline_week(c) - m.step_count

weeks_until_deadline(c, m) ==
    tax_deadline_week(c) - (m.step_count % WeeksPerYear)

urgency_multiplier_mut(wud) == 1

urgency_multiplier(wud) == IF wud = 1 THEN 2 ELSE 1

ChannelCost_mut(c, channel) == c.intervention_costs[channel]

ChannelCost(c, channel) == c.N * c.intervention_costs[channel]

RECURSIVE Broadcast(_, _, _, _)
\* the loop over todays_channels: effect first, then cost, KeyError on an
\* unknown channel name
Broadcast(c, m, channels, wud) ==
    IF channels = <<>> \/ m.err # "ok" THEN m
    ELSE LET channel == Head(channels)
         IN  IF channel \notin DOMAIN c.channel_effects
             THEN [m EXCEPT !.err = "KeyError"]
             ELSE LET m1 == [m EXCEPT !.current_commun =
                                @ + c.channel_effects[channel] * urgency_multiplier(wud)]
                  IN  IF channel \notin DOMAIN c.intervention_costs
                      THEN [m1 EXCEPT !.err = "KeyError"]
                      ELSE Broadcast(c,
                               [m1 EXCEPT !.total_compliance_costs =
                                              @ + ChannelCost(c, channel)],
                               Tail(channels), wud)

todays_channels_mut(c, wud) ==
    IF wud \in DOMAIN c.communication_schedule THEN c.communication_schedule[wud]
    ELSE IF wud + WeeksPerYear \in DOMAIN c.communication_schedule
    THEN c.communication_schedule[wud + WeeksPerYear]
    ELSE <<>>

\* the channels under the key weeks_until_deadline, none when the schedule has
\* no such key
todays_channels(c, wud) ==
    IF wud \in DOMAIN c.communication_schedule
    THEN c.communication_schedule[wud] ELSE <<>>

Scheduler_mut(c, m) ==
    LET wud == weeks_until_deadline(c, m)
        m0  == [m EXCEPT !.current_week = m.step_count % WeeksPerYear,
                         !.is_high_urgency_week = FALSE]
    IN  Broadcast(c, m0, todays_channels(c, wud), wud)

Scheduler(c, m) ==
    LET wud == weeks_until_deadline(c, m)
        m0  == [m EXCEPT !.current_week = m.step_count % WeeksPerYear,
                         !.is_high_urgency_week = FALSE,
                         !.sector_warnings = NoWarnings,
                         !.current_commun = 0]
    IN  Broadcast(c, m0, todays_channels(c, wud), wud)

GroupCount(counts, key) == IF key \in DOMAIN counts THEN counts[key] ELSE 0

GroupSeq(c) ==
    LET ns == Len(c.size_shares)
        na == Len(c.age_shares)
    IN  [k \in 1..(ns * na) |->
            <<c.size_shares[((k - 1) \div na) + 1][1],
              c.age_shares[((k - 1) % na) + 1][1]>>]

IsRisky_mut(c, m, key) ==
    compute_group_mean(m.agents, key[1], key[2]) <= c.C_target * FineScale

IsRisky(c, m, key) ==
    compute_group_mean(m.agents, key[1], key[2]) < c.C_target * FineScale

RECURSIVE WarningVisits(_, _, _, _)
\* the nested loops over size_order and age_order in the warning-visit week
WarningVisits(c, counts, m, keys) ==
    IF keys = <<>> \/ m.err # "ok" THEN m
    ELSE LET key == Head(keys)
         IN  IF ~IsRisky(c, m, key) THEN WarningVisits(c, counts, m, Tail(keys))
             ELSE IF "warning_letter" \notin DOMAIN c.channel_effects
                     \/ "warning_letter" \notin DOMAIN c.intervention_costs
             THEN [m EXCEPT !.err = "KeyError"]
             ELSE WarningVisits(c, counts,
                      [m EXCEPT !.sector_warnings =
                                    (key :> c.channel_effects["warning_letter"]) @@ @,
                                !.total_compliance_costs =
                                    @ + GroupCount(counts, key)
                                          * c.intervention_costs["warning_letter"]],
                      Tail(keys))

CompanyVisits_mut(c, counts, m) == WarningVisits(c, counts, m, GroupSeq(c))

CompanyVisits(c, counts, m) ==
    IF m.current_week = c.warning_visit_week
    THEN WarningVisits(c, counts, m, GroupSeq(c))
    ELSE m

\* One Model.step(): scheduler, warning visits, audits, every agent's step in
\* the order the unseeded self.random shuffles them into, then the counter
ModelStepFn_mut(c, g, counts, m, order) ==
    LET m1 == Scheduler(c, m)
        m2 == IF m1.err = "ok" THEN CompanyVisits(c, counts, m1) ELSE m1
        m3 == IF m2.err = "ok" THEN shuffle_do_step(c, g, m2, order) ELSE m2
        m4 == IF m3.err = "ok" THEN auditing_strategy(c, m3) ELSE m3
    IN  IF m4.err = "ok" THEN [m4 EXCEPT !.step_count = @ + 1] ELSE m4

ModelStepFn(c, g, counts, m, order) ==
    LET m1 == Scheduler(c, m)
        m2 == IF m1.err = "ok" THEN CompanyVisits(c, counts, m1) ELSE m1
        m3 == IF m2.err = "ok" THEN auditing_strategy(c, m2) ELSE m2
        m4 == IF m3.err = "ok" THEN shuffle_do_step(c, g, m3, order) ELSE m3
    IN  IF m4.err = "ok" THEN [m4 EXCEPT !.step_count = @ + 1] ELSE m4

StepOrders(c) == {[k \in 1..c.N |-> p[k]] : p \in Perms(c.N)}

SetRun(r) ==
    /\ agents' = r.agents
    /\ step_count' = r.step_count
    /\ current_week' = r.current_week
    /\ total_compliance_costs' = r.total_compliance_costs
    /\ current_commun' = r.current_commun
    /\ sector_warnings' = r.sector_warnings
    /\ is_high_urgency_week' = r.is_high_urgency_week
    /\ total_audited_this_step' = r.total_audited_this_step
    /\ rng' = r.rng
    /\ err' = r.err

Fixed == <<cfg, grid, group_counts, underpayment_mean_if_noncompliant>>

\* Model.step() of the run
ModelStep(horizon) ==
    /\ err = "ok"
    /\ step_count < horizon
    /\ \E order \in StepOrders(cfg) :
          SetRun(ModelStepFn(cfg, grid, group_counts, Cur, order))
    /\ UNCHANGED <<Fixed, twin, dashboard>>

\* Model.step() of both runs built from the same seed, tick by tick
PairStep ==
    /\ err = "ok" /\ twin.err = "ok"
    /\ step_count < PairMaxStep
    /\ \E orders \in [{1, 2} -> StepOrders(cfg)] :
       \E runs \in {[k \in {1, 2} |->
                       ModelStepFn(cfg, grid, group_counts,
                                   IF k = 1 THEN Cur ELSE twin, orders[k])]} :
          /\ SetRun(runs[1])
          /\ twin' = runs[2]
    /\ UNCHANGED <<Fixed, dashboard>>

Next == ModelStep(MaxStep)

Spec == Init /\ [][Next]_vars

\* Long runs: the configurations with audits and no peer network, one seed
InitLong == InitWith({BaseConfig, ConfigLowTarget, ConfigExtreme}, {0})
NextLong == ModelStep(LongMaxStep)
SpecLong == InitLong /\ [][NextLong]_vars

\* Two runs side by side: the two-agent configurations with a peer network
InitPair == InitWith({ConfigNoIntervention, ConfigExtreme, ConfigHighTarget},
                     SeedStates)
NextPair == PairStep
SpecPair == InitPair /\ [][NextPair]_vars

\* Campaigns over larger populations without a network: every agent is
\* selected, so the targeted half has three, four or five members
ConfigSeven ==
    [BaseConfig EXCEPT !.N = 7,
                       !.audit_rates = UniformRates(BaseConfig, PScale),
                       !.audit_types = AuditTypesExtreme]

ConfigNine == [ConfigSeven EXCEPT !.N = 9]
ConfigSix == [ConfigSeven EXCEPT !.N = 6]

\* the draws of a population: the agent draws taken in turn, from an offset
\* and with a stride
DrawsInTurn(c, offset, stride) ==
    LET betas == <<3000, 8000, 6000, 9990>>
    IN  [i \in 1..c.N |->
            CHOOSE d \in AgentDraws :
                d.beta_draw = betas[((offset + stride * i) % 4) + 1]]

InitTiers ==
    \E c \in {ConfigSix, ConfigSeven, ConfigNine} :
    \E offset \in 0..3 : \E stride \in {1, 2, 3} :
    \E seed \in SeedStates :
        ConstructedAs(c, DrawsInTurn(c, offset, stride), [i \in 1..c.N |-> {}], seed)

\* Model.step() of a run without a network: no step reads another agent or
\* draws from self.rng, so every order of shuffle_do gives the same state and
\* the order of the ids stands for all of them
ModelStepNoPeers(horizon) ==
    /\ err = "ok"
    /\ step_count < horizon
    /\ \A i \in DOMAIN grid : grid[i] = {}
    /\ SetRun(ModelStepFn(cfg, grid, group_counts, Cur, AgentIds(agents)))
    /\ UNCHANGED <<Fixed, twin, dashboard>>

NextTiers == ModelStepNoPeers(MaxStep)
SpecTiers == InitTiers /\ [][NextTiers]_vars

\* Campaigns under tier tables that lack some of the names Light, Standard and
\* Deep, over populations that are selected whole: targeted groups of one, two
\* and three members
TierTables ==
    {AuditTypesExtreme,
     [Light |-> AuditTypesExtreme.Light, Standard |-> AuditTypesExtreme.Standard],
     [Light |-> AuditTypesExtreme.Light, Deep |-> AuditTypesExtreme.Deep],
     [Standard |-> AuditTypesExtreme.Standard, Deep |-> AuditTypesExtreme.Deep],
     [Deep |-> AuditTypesExtreme.Deep],
     << >>}

InitTierTables ==
    \E n \in {1, 2, 3, 6} : \E table \in TierTables :
    \E c \in {[ConfigSeven EXCEPT !.N = n, !.audit_types = table]} :
    \E offset \in 0..3 : \E stride \in {1, 2, 3} :
    \E seed \in SeedStates :
        ConstructedAs(c, DrawsInTurn(c, offset, stride), [i \in 1..c.N |-> {}], seed)

NextTierTables == ModelStepNoPeers(MaxStep)
SpecTierTables == InitTierTables /\ [][NextTierTables]_vars

\* Runs whose tax calendar differs from the constructor's: a schedule with keys
\* that no week of the year reaches, and runs set up by
\* dashboard/model_adapter.py, which drops the schedule keys <= 0 and then
\* overrides tax_deadline_week and audit_delay_weeks

CalendarMaxStep == 56

_normalize_communication_schedule(schedule) ==
    [k \in {j \in DOMAIN schedule : j > 0} |-> schedule[k]]

_run_single_simulation(c, deadline_week, delay_weeks) ==
    [tax_deadline_week |-> deadline_week, audit_delay_weeks |-> delay_weeks]
    @@ [c EXCEPT !.communication_schedule =
                     _normalize_communication_schedule(@)]

\* keys above the deadline week and below deadline week - 51 list a channel
\* that no table knows
ScheduleOutOfRange ==
    (13 :> <<"billboard">>) @@ ((0 - 40) :> <<"billboard">>)
    @@ (12 :> <<"email">>) @@ (0 :> <<"physical_letter">>)
    @@ ((0 - 39) :> <<"email", "physical_letter">>) @@ (1 :> <<"email">>)

ScheduleDashboard ==
    (60 :> <<"billboard">>) @@ (50 :> <<"email">>) @@ (0 :> <<"billboard">>)
    @@ ((0 - 3) :> <<"billboard">>) @@ (1 :> <<"physical_letter">>)

ConfigOutOfRangeKeys ==
    [ConfigLowTarget EXCEPT !.communication_schedule = ScheduleOutOfRange]

\* deadline in week 5: the default schedule's keys 8 and 6 are out of range
ConfigEarlyDeadline == _run_single_simulation(ConfigLowTarget, 5, 8)

\* deadline week + delay = 58 and = 52: above the last week of the year
ConfigLateDeadline ==
    _run_single_simulation(
        [ConfigLowTarget EXCEPT !.communication_schedule = ScheduleDashboard,
                                !.N = 2],
        50, 8)

ConfigCampaignInWeek52 ==
    _run_single_simulation([ConfigLowTarget EXCEPT !.N = 2], 12, 40)

\* deadline week + delay = -1: below the first week of the year
ConfigNegativeDelay ==
    _run_single_simulation([ConfigLowTarget EXCEPT !.N = 2], 12, 0 - 13)

\* deadline week + delay = 51 and = 0: the last and the first week of the year
ConfigCampaignInWeek51 ==
    _run_single_simulation([ConfigLowTarget EXCEPT !.N = 2], 12, 39)

ConfigCampaignInWeek0 ==
    _run_single_simulation([ConfigLowTarget EXCEPT !.N = 2], 12, 0 - 12)

InitCalendar ==
    InitWith({ConfigOutOfRangeKeys, ConfigEarlyDeadline, ConfigLateDeadline,
              ConfigCampaignInWeek52, ConfigNegativeDelay,
              ConfigCampaignInWeek51, ConfigCampaignInWeek0}, {0})
NextCalendar == ModelStep(CalendarMaxStep)
SpecCalendar == InitCalendar /\ [][NextCalendar]_vars

----------------------------------------------------------------------------
(* What the DataCollector reports for a run state, with the cumulative cost *)

AdvisorStates == {"Advisor", "NoAdvisor"}

Metrics(c, m, u) ==
    [mean_propensity |->
         RoundDiv(SumSeq([i \in DOMAIN m.agents |-> m.agents[i].propensity])
                    * FineScale, Len(m.agents)),
     group_means |->
         [k \in GroupKeys(c) \X AdvisorStates |->
             compute_group_mean_adv(m.agents, k[1][1], k[1][2], k[2])],
     audited |-> m.total_audited_this_step,
     cost |-> m.total_compliance_costs,
     tax_gap |-> compute_tax_gap_rate(m.agents, u)]

----------------------------------------------------------------------------
(* Claims *)

Ids == DOMAIN agents

AuditedAt(ags, i, t) == ags[i].last_audit_step = t

\* C1: after construction and after any number of Model.step() calls every
\* agent's propensity lies in [0, 1]
C1_PropensityInUnitInterval ==
    \A i \in Ids : agents[i].propensity >= 0 /\ agents[i].propensity <= PScale

\* C1 witness: an agent audited with a tier effect above 1 sits at the upper
\* bound, or one audited with a negative effect sits at the lower bound,
\* after its step
C1_Witness ==
    /\ step_count > TaxDeadlineWeek + AuditDelayWeeks
    /\ \E i \in Ids : /\ agents[i].audit_impact > PScale
                      /\ agents[i].propensity = PScale
    /\ \E i \in Ids : /\ agents[i].audit_impact < 0
                      /\ agents[i].propensity = 0

\* C2 (as claimed): two runs with the same seed and arguments, advanced by the
\* same number of Model.step() calls, report identical metrics
C2_SameSeedSameMetrics ==
    twin.step_count = step_count =>
        Metrics(cfg, Cur, underpayment_mean_if_noncompliant)
            = Metrics(cfg, twin, underpayment_mean_if_noncompliant)

\* C3: two audits of the same agent are at least COOLDOWN_PERIOD ticks apart
C3_AuditCooldown ==
    [][\A i \in Ids :
          agents'[i].last_audit_step # agents[i].last_audit_step =>
              agents'[i].last_audit_step - agents[i].last_audit_step
                  >= COOLDOWN_PERIOD]_vars

\* C3 witness: an agent audited in the first campaign is audited again
C3_Witness ==
    \E i \in Ids :
        agents[i].last_audit_step
            = TaxDeadlineWeek + AuditDelayWeeks + COOLDOWN_PERIOD

\* C4 (as claimed): once Model.step() has returned, every agent's audit_impact
\* is 0 again
C4_AuditImpactOneShot == \A i \in Ids : agents[i].audit_impact = 0

\* the state the allocator of the coming tick starts from
BeforeAllocator == CompanyVisits(cfg, group_counts, Scheduler(cfg, Cur))

\* C5: a tick outside the campaign week audits nobody: the allocator writes no
\* last_audit_step or audit_impact, the audited fraction is 0 and the cost
\* grows by the scheduler's charges only
C5_NoAuditOutsideCampaign ==
    [][(step_count' = step_count + 1
          /\ step_count % WeeksPerYear # TaxDeadlineWeek + AuditDelayWeeks) =>
         /\ total_audited_this_step' = 0
         /\ \A i \in Ids :
               /\ agents'[i].last_audit_step = agents[i].last_audit_step
               /\ agents'[i].audit_impact = agents[i].audit_impact
         /\ auditing_strategy(cfg, BeforeAllocator).agents = agents
         /\ total_compliance_costs' = BeforeAllocator.total_compliance_costs]_vars

\* C5 witness: the tick after a campaign has run, with audited agents around
C5_Witness ==
    /\ step_count = TaxDeadlineWeek + AuditDelayWeeks + 2
    /\ total_audited_this_step = 0
    /\ \E i \in Ids : AuditedAt(agents, i, TaxDeadlineWeek + AuditDelayWeeks)

NoIntervention(c) ==
    /\ \A k \in DOMAIN c.audit_rates : c.audit_rates[k] = 0
    /\ DOMAIN c.communication_schedule = {}

\* the propensity an agent is left with when only the decay term acts
DecayOnly(a) ==
    LET decay == IF a.has_advisor THEN RoundDiv(cfg.decay_factor * 95, 100)
                 ELSE RoundDiv(cfg.decay_factor * 105, 100)
    IN  Max(0, RoundDiv(a.propensity * PScale
                          - MulDiv(a.propensity, decay, FineScale), PScale))

\* C6 (as claimed): with every audit rate 0 and an empty schedule the
\* improvement term is 0 in every tick, so every propensity changes by the
\* decay term only and never increases
C6_DecayOnlyAsClaimed ==
    [][(NoIntervention(cfg) /\ step_count' = step_count + 1) =>
         \A i \in Ids :
            /\ agents'[i].propensity = DecayOnly(agents[i])
            /\ agents'[i].propensity <= agents[i].propensity]_vars

\* the run state an agent of the finished tick stepped in, without peers
AsStepped ==
    [Cur EXCEPT !.current_commun = current_commun',
                !.sector_warnings = sector_warnings',
                !.current_week = current_week']

\* C6 (amended): with every audit rate 0 and an empty schedule, audit_impact
\* and the broadcast intensity are 0 in every tick; the improvement term is
\* (1 - p) * (targeted_comm + peer_comm) with peer_comm >= 0, so an agent
\* without neighbours whose group is not warned in the tick changes by the
\* decay term only and does not increase
C6_DecayOnlyWithoutWarningsAndPeers ==
    [][(NoIntervention(cfg) /\ step_count' = step_count + 1) =>
         /\ current_commun' = 0
         /\ \A i \in Ids :
               /\ agents[i].audit_impact = 0
               /\ agents'[i].propensity
                     >= UpdatedPropensity(cfg, agents[i], 0, AsStepped)
               /\ grid[i] = {} =>
                     agents'[i].propensity
                        = UpdatedPropensity(cfg, agents[i], 0, AsStepped)
               /\ (grid[i] = {} /\ GroupOf(agents[i]) \notin DOMAIN sector_warnings') =>
                     /\ agents'[i].propensity = DecayOnly(agents[i])
                     /\ agents'[i].propensity <= agents[i].propensity]_vars

\* C6 witness: without interventions an agent without neighbours has decayed
C6_Witness ==
    /\ NoIntervention(cfg)
    /\ step_count = MaxStep
    /\ \E i \in Ids : /\ grid[i] = {}
                      /\ ~agents[i].has_advisor
                      /\ agents[i].propensity > 0
                      /\ agents[i].propensity < 3000

Calibrated == step_count = 0 /\ ~cfg.underpayment_mean_if_noncompliant.given

BaselineGap == compute_tax_gap_rate(agents, underpayment_mean_if_noncompliant)

\* fixed-point image of the floating-point tolerance of the comparison
GapTolerance == 1

Within(x, y, tol) == x - y <= tol /\ y - x <= tol

\* C7 (as claimed): for the population as built, with u left to be calibrated,
\* compute_tax_gap_rate() equals tax_gap_target_rate
C7_BaselineGapIsTarget ==
    Calibrated => Within(BaselineGap, cfg.tax_gap_target_rate, GapTolerance)

\* C7 (amended): it equals tax_gap_target_rate when the target does not exceed
\* the liability-weighted non-compliance of the built population; otherwise u
\* saturates at 1 and it equals that weighted non-compliance (0 when nobody is
\* non-compliant)
C7_BaselineGapIsTargetUnlessSaturated ==
    Calibrated =>
        LET w == compute_weighted_noncompliance(agents)
        IN  IF cfg.tax_gap_target_rate <= w
            THEN Within(BaselineGap, cfg.tax_gap_target_rate, GapTolerance)
            ELSE BaselineGap = w

\* C7 witness: a calibrated u strictly between 0 and 1 for agents of different
\* liability and propensity
C7_Witness ==
    /\ Calibrated
    /\ underpayment_mean_if_noncompliant > 0
    /\ underpayment_mean_if_noncompliant < PScale
    /\ \E i, j \in Ids : /\ agents[i].turnover # agents[j].turnover
                         /\ agents[i].propensity # agents[j].propensity

IsCampaignTick == step_count % WeeksPerYear = TaxDeadlineWeek + AuditDelayWeeks

GroupIds(key) == {i \in Ids : GroupOf(agents[i]) = key}

EligibleIds(key) ==
    {i \in GroupIds(key) : step_count - agents[i].last_audit_step >= COOLDOWN_PERIOD}

AuditedNow(key) == {i \in GroupIds(key) : agents'[i].last_audit_step = step_count}

RequestedAudits(key) ==
    LET x == BaseRate(cfg, key) * Cardinality(GroupIds(key))
        q == x \div PScale
    IN  IF 2 * (x % PScale) < PScale THEN q
        ELSE IF 2 * (x % PScale) > PScale THEN q + 1
        ELSE q + (q % 2)

LiveGroups == {GroupOf(agents[i]) : i \in Ids}

\* C8: on a campaign tick every group has min(eligible members, round(rate *
\* group size)) distinct agents audited, all of them eligible; the audited
\* fraction is their total over N; the tick does not raise
C8_CampaignCounts ==
    [][(IsCampaignTick /\ err = "ok" /\ step_count < LongMaxStep) =>
         /\ err' = "ok"
         /\ step_count' = step_count + 1
         /\ \A key \in LiveGroups :
               /\ AuditedNow(key) \subseteq EligibleIds(key)
               /\ Cardinality(AuditedNow(key))
                     = Min(Cardinality(EligibleIds(key)), RequestedAudits(key))
         /\ total_audited_this_step'
               = RoundDiv(Cardinality({i \in Ids :
                              agents'[i].last_audit_step = step_count}) * PScale,
                          cfg.N)]_vars

\* C8 witness: a second campaign has audited an agent while another, audited
\* in the first campaign, was not eligible
C8_Witness ==
    /\ step_count = TaxDeadlineWeek + AuditDelayWeeks + WeeksPerYear + 1
    /\ \E i, j \in Ids :
          /\ GroupOf(agents[i]) = GroupOf(agents[j])
          /\ AuditedAt(agents, i, TaxDeadlineWeek + AuditDelayWeeks + WeeksPerYear)
          /\ AuditedAt(agents, j, TaxDeadlineWeek + AuditDelayWeeks)

ScheduledNow ==
    LET wud == TaxDeadlineWeek - (step_count % WeeksPerYear)
    IN  IF wud \in DOMAIN cfg.communication_schedule
        THEN cfg.communication_schedule[wud] ELSE <<>>

EffectSum(channels) ==
    SumSeq([k \in DOMAIN channels |-> cfg.channel_effects[channels[k]]])

CostSum(channels) ==
    SumSeq([k \in DOMAIN channels |-> cfg.intervention_costs[channels[k]]])

WarningCharges(warnings) ==
    SumSeq([k \in DOMAIN GroupSeq(cfg) |->
               IF GroupSeq(cfg)[k] \in DOMAIN warnings
               THEN GroupCount(group_counts, GroupSeq(cfg)[k])
                       * cfg.intervention_costs["warning_letter"]
               ELSE 0])

\* C9: one week before the deadline each scheduled channel adds twice its
\* effect to the broadcast intensity and N times its cost (not doubled) to the
\* cumulative cost; in every other scheduled week it adds its effect once
C9_UrgencyDoublesEffectOnly ==
    [][(step_count' = step_count + 1 /\ ScheduledNow # <<>>) =>
         /\ current_commun' =
               (IF TaxDeadlineWeek - (step_count % WeeksPerYear) = 1 THEN 2 ELSE 1)
                   * EffectSum(ScheduledNow)
         /\ ~IsCampaignTick =>
               total_compliance_costs' =
                   total_compliance_costs + cfg.N * CostSum(ScheduledNow)
                       + WarningCharges(sector_warnings')]_vars

\* C9 witness: the tick one week before the deadline has run with a channel
\* scheduled
C9_Witness ==
    /\ step_count = TaxDeadlineWeek
    /\ 1 \in DOMAIN cfg.communication_schedule
    /\ current_commun = 2 * EffectSum(cfg.communication_schedule[1])
    /\ current_commun # 0

GroupMu(a) == mu_table(cfg)[GroupOf(a)]

----------------------------------------------------------------------------
(* Run summary *)

\* report_tax_gap: total_potential - total_actual, where each agent adds its
\* liability to the first and liability - expected unpaid tax to the second
report_tax_gap(ags, u) ==
    SumSeq([i \in DOMAIN ags |-> expected_unpaid_tax(ags[i], u)])

\* the gap is counted in 1/PScale of a thousand euro, the cost in euro cents
CentsPerGapUnit == 10

SummaryOf(reduction, total_cost, roi_ratio) ==
    [tax_gap_reduction |-> reduction,
     total_cost |-> total_cost,
     net_benefit |-> reduction - total_cost,
     roi_ratio |-> roi_ratio,
     err |-> "ok"]

Raised(e) ==
    [tax_gap_reduction |-> 0, total_cost |-> 0, net_benefit |-> 0,
     roi_ratio |-> 0, err |-> e]

\* dashboard/model_adapter.py: roi_ratio guarded by total_cost > 0
adapter_summary(initial_gap, final_gap, total_cost) ==
    LET reduction == CentsPerGapUnit * (initial_gap - final_gap)
    IN  SummaryOf(reduction, total_cost,
                  IF total_cost > 0 THEN reduction \div total_cost ELSE 0)

\* simulate.py: reduction / total_cost on Python floats
simulate_summary(initial_gap, final_gap, total_cost) ==
    LET reduction == CentsPerGapUnit * (initial_gap - final_gap)
    IN  IF total_cost = 0 THEN Raised("ZeroDivisionError")
        ELSE SummaryOf(reduction, total_cost, reduction \div total_cost)

\* report_results.py: the same unguarded division
report_results_summary(initial_gap, final_gap, total_cost) ==
    LET reduction == CentsPerGapUnit * (initial_gap - final_gap)
    IN  IF total_cost = 0 THEN Raised("ZeroDivisionError")
        ELSE SummaryOf(reduction, total_cost, reduction \div total_cost)

\* under Spec the second run record is left as constructed
InitialGap == report_tax_gap(twin.agents, underpayment_mean_if_noncompliant)

FinalGap == report_tax_gap(agents, underpayment_mean_if_noncompliant)

Summaries ==
    {adapter_summary(InitialGap, FinalGap, total_compliance_costs),
     simulate_summary(InitialGap, FinalGap, total_compliance_costs),
     report_results_summary(InitialGap, FinalGap, total_compliance_costs)}

\* C11: whenever the run ends, every producer of the summary reports
\* reduction = initial gap - final gap, net benefit = reduction - cost and
\* roi = reduction / cost, with roi 0 and no error when the cost is 0
C11_SummaryContract ==
    step_count > 0 =>
    \A s \in Summaries :
        /\ s.err = "ok"
        /\ s.tax_gap_reduction = CentsPerGapUnit * (InitialGap - FinalGap)
        /\ s.total_cost = total_compliance_costs
        /\ s.net_benefit = s.tax_gap_reduction - s.total_cost
        /\ IF total_compliance_costs = 0 THEN s.roi_ratio = 0
           ELSE s.roi_ratio = s.tax_gap_reduction \div total_compliance_costs

InvalidShares(c) ==
    \/ SumSeq(Weights(c.size_shares)) = 0
    \/ SumSeq(Weights(c.age_shares)) = 0

UndefinedRateKey(c) == \E k \in DOMAIN c.audit_rates : k \notin GroupKeys(c)

\* C12: a run built with size or age shares that sum to 0, or with a rate
\* table naming a key that is not a (size, age) category, ends in an error at
\* construction and runs no tick
C12_InvalidConfigFailsFast ==
    (InvalidShares(cfg) \/ UndefinedRateKey(cfg)) =>
        err # "ok" /\ step_count = 0

----------------------------------------------------------------------------
(* Dashboard adapter: src/dashboard/model_adapter.py *)

ReportMaxStep == 2

\* float(agent.turnover) * float(agent.tax_rate), in the unit of the unpaid tax
Potential(a) == _agent_liability(a) * PScale

expected_unpaid_mut(a, u) == _agent_liability(a) * (PScale - a.propensity)

\* the model has expected_unpaid_tax, so the adapter calls it
expected_unpaid(a, u) == expected_unpaid_tax(a, u)

gap_pct_mut(gap, potential) ==
    IF potential > 0 THEN gap \div (potential \div 100) ELSE 100

\* (gap / potential * 100) if potential > 0 else 0, in whole per cent
gap_pct(gap, potential) ==
    IF potential > 0 THEN gap \div (potential \div 100) ELSE 0

finalize(entry) ==
    [potential |-> entry.potential,
     actual |-> entry.actual,
     gap |-> entry.potential - entry.actual,
     gap_pct |-> gap_pct(entry.potential - entry.actual, entry.potential)]

\* the key under which an agent is counted in a breakdown
KeyOf(by, a, sector) ==
    IF by = "size" THEN a.size_cat
    ELSE IF by = "group" THEN <<a.size_cat, a.age_cat>>
    ELSE sector

\* what the loop over the agents accumulates under one key of a breakdown
Accumulate(ags, sectors, u, by, key) ==
    [potential |->
        SumSeq([i \in DOMAIN ags |->
                   IF KeyOf(by, ags[i], sectors[i]) = key
                   THEN Potential(ags[i]) ELSE 0]),
     actual |->
        SumSeq([i \in DOMAIN ags |->
                   IF KeyOf(by, ags[i], sectors[i]) = key
                   THEN Potential(ags[i]) - expected_unpaid(ags[i], u) ELSE 0])]

Breakdown(ags, sectors, u, by) ==
    [key \in {KeyOf(by, ags[i], sectors[i]) : i \in DOMAIN ags} |->
        finalize(Accumulate(ags, sectors, u, by, key))]

compute_tax_gap(ags, sectors, u) ==
    LET total_potential == SumSeq([i \in DOMAIN ags |-> Potential(ags[i])])
        total_actual == SumSeq([i \in DOMAIN ags |->
                                   Potential(ags[i]) - expected_unpaid(ags[i], u)])
        total_gap == total_potential - total_actual
    IN  [total_potential |-> total_potential,
         total_actual |-> total_actual,
         total_gap |-> total_gap,
         gap_pct |-> gap_pct(total_gap, total_potential),
         by_size |-> Breakdown(ags, sectors, u, "size"),
         by_group |-> Breakdown(ags, sectors, u, "group"),
         by_sector |-> Breakdown(ags, sectors, u, "sector")]

HighCompliance == 8000

collect_step_metrics(c, m, sectors, u) ==
    [step |-> m.step_count,
     overall_mean |->
         IF Len(m.agents) > 0
         THEN RoundDiv(SumSeq([i \in DOMAIN m.agents |-> m.agents[i].propensity])
                          * FineScale, Len(m.agents))
         ELSE 0,
     overall_audited_pct |-> m.total_audited_this_step * 100,
     high_compliance_pct |->
         IF c.N > 0
         THEN (Cardinality({i \in DOMAIN m.agents :
                               m.agents[i].propensity >= HighCompliance}) * 100 * PScale)
                 \div c.N
         ELSE 0,
     tax_gap_rate |-> compute_tax_gap_rate(m.agents, u),
     tax_gap |-> compute_tax_gap(m.agents, sectors, u),
     total_cost |-> m.total_compliance_costs]

\* _run_single_simulation draws every agent's sector with probabilities
\* sector_shares / sum, or uniform ones when the shares sum to 0
SectorChoices(sector_shares) ==
    IF SumSeq(Weights(sector_shares)) > 0
    THEN {sector_shares[k][1] : k \in {j \in DOMAIN sector_shares :
                                          sector_shares[j][2] > 0}}
    ELSE {sector_shares[k][1] : k \in DOMAIN sector_shares}

SectorSharesGiven ==
    { << <<"Retail", 7000>>, <<"Construction", 3000>> >>,
      << <<"Retail", 0>>, <<"Construction", 0>> >> }

\* Agents handed to the reporting functions: as the constructor builds them,
\* and agents whose turnover has been set to 0 so that they carry no liability
ReportAgent(size_cat, age_cat, has_advisor, propensity, turnover) ==
    [size_cat |-> size_cat, age_cat |-> age_cat, propensity |-> propensity,
     turnover |-> turnover, tax_rate |-> 3000, has_advisor |-> has_advisor,
     audit_impact |-> 0, last_audit_step |-> NeverAudited]

ReportAgents ==
    { ReportAgent("Micro", "Young", FALSE, 3000, 100),
      ReportAgent("Micro", "Young", TRUE, 8000, 0),
      ReportAgent("Micro", "Old", FALSE, 0, 0),
      ReportAgent("Micro", "Old", FALSE, 6000, 200),
      ReportAgent("Medium", "Old", TRUE, PScale, 5000) }

ReportConfigs ==
    {[ConfigGivenU EXCEPT !.n_neighbours = 4, !.warning_visit_week = 1],
     [ConfigNoIntervention EXCEPT !.communication_schedule = ScheduleDefault]}

InitReport ==
    \E c \in ReportConfigs :
    \E ags \in [1..c.N -> ReportAgents] :
    \E g \in Networks(c) :
    \E shares \in SectorSharesGiven :
    \E sectors \in [1..c.N -> SectorChoices(shares)] :
        /\ cfg = c
        /\ grid = g
        /\ agents = ags
        /\ group_counts = CountGroups(ags)
        /\ underpayment_mean_if_noncompliant = _calibrate_tax_gap_link(c, ags)
        /\ step_count = 0
        /\ current_week = 0
        /\ total_compliance_costs = 0
        /\ current_commun = 0
        /\ sector_warnings = NoWarnings
        /\ is_high_urgency_week = FALSE
        /\ total_audited_this_step = 0
        /\ rng = 0
        /\ err = "ok"
        /\ twin = Run(ags, 0, 0, 0, 0, NoWarnings, FALSE, 0, 0, "ok")
        /\ dashboard = [sector |-> sectors, steps |-> << >>]

Collected(m) ==
    [dashboard EXCEPT !.steps =
        Append(@, collect_step_metrics(cfg, m, dashboard.sector,
                                       underpayment_mean_if_noncompliant))]

\* steps.append({"step": 0, **initial_metrics}) before the first tick
AdapterCollectInitial ==
    /\ dashboard.steps = << >>
    /\ dashboard' = Collected(Cur)
    /\ UNCHANGED <<Fixed, twin, agents, step_count, current_week,
                   total_compliance_costs, current_commun, sector_warnings,
                   is_high_urgency_week, total_audited_this_step, rng, err>>

\* one pass of the loop: model.step(), then steps.append(collect_step_metrics)
AdapterTick ==
    /\ dashboard.steps # << >>
    /\ err = "ok"
    /\ step_count < ReportMaxStep
    /\ \E order \in StepOrders(cfg) :
       \E r \in {ModelStepFn(cfg, grid, group_counts, Cur, order)} :
          /\ SetRun(r)
          /\ dashboard' = IF r.err = "ok" THEN Collected(r) ELSE dashboard
    /\ UNCHANGED <<Fixed, twin>>

NextReport == AdapterCollectInitial \/ AdapterTick

SpecReport == InitReport /\ [][NextReport]_vars

TotalLiability == SumSeq([i \in DOMAIN agents |-> _agent_liability(agents[i])])

EmptyGroups == {k \in GroupKeys(cfg) : \A i \in Ids : GroupOf(agents[i]) # k}

BreakdownEntries(tg) ==
    {tg.by_size[k] : k \in DOMAIN tg.by_size}
        \cup {tg.by_group[k] : k \in DOMAIN tg.by_group}
        \cup {tg.by_sector[k] : k \in DOMAIN tg.by_sector}

\* C13: a ratio metric whose denominator is 0 is 0: the mean of a group
\* without members, the weighted non-compliance and the tax-gap rate of a
\* population without liability, and the gap percentage, overall and of every
\* breakdown entry, when the potential is 0
C13_ZeroDenominatorGivesZero ==
    /\ \A k \in EmptyGroups : compute_group_mean(agents, k[1], k[2]) = 0
    /\ TotalLiability = 0 =>
          /\ compute_weighted_noncompliance(agents) = 0
          /\ compute_tax_gap_rate(agents, underpayment_mean_if_noncompliant) = 0
    /\ \A n \in DOMAIN dashboard.steps :
          LET r == dashboard.steps[n]
          IN  /\ TotalLiability = 0 => r.tax_gap_rate = 0
              /\ r.tax_gap.total_potential = 0 => r.tax_gap.gap_pct = 0
              /\ \A e \in BreakdownEntries(r.tax_gap) :
                    e.potential = 0 => e.gap_pct = 0

\* C13 witness: records collected for a population without liability, one
\* tick into the run, with some group empty
C13_Witness ==
    /\ TotalLiability = 0
    /\ EmptyGroups # {}
    /\ Len(dashboard.steps) = 2
    /\ dashboard.steps[2].tax_gap.total_potential = 0
    /\ \E i \in Ids : agents[i].propensity < PScale

RECURSIVE SumEntriesOver(_, _, _)
SumEntriesOver(breakdown, keys, field) ==
    IF keys = {} THEN 0
    ELSE LET k == CHOOSE x \in keys : TRUE
         IN  breakdown[k][field] + SumEntriesOver(breakdown, keys \ {k}, field)

SumEntries(breakdown, field) == SumEntriesOver(breakdown, DOMAIN breakdown, field)

Partitions(tg, breakdown) ==
    /\ SumEntries(breakdown, "potential") = tg.total_potential
    /\ SumEntries(breakdown, "actual") = tg.total_actual
    /\ SumEntries(breakdown, "gap") = tg.total_gap

\* C14: in every collected record the breakdowns by size, by group and by
\* sector each sum to the totals of potential, actual and gap, and total_gap
\* = total_potential - total_actual = sum of liability * (1 - propensity) * u
C14_BreakdownsPartitionTotal ==
    \A n \in DOMAIN dashboard.steps :
        LET tg == dashboard.steps[n].tax_gap
        IN  /\ Partitions(tg, tg.by_size)
            /\ Partitions(tg, tg.by_group)
            /\ Partitions(tg, tg.by_sector)
            /\ tg.total_gap = tg.total_potential - tg.total_actual
            /\ n = Len(dashboard.steps) =>
                  tg.total_gap =
                     SumSeq([i \in DOMAIN agents |->
                        MulDiv(underpayment_mean_if_noncompliant,
                               RoundDiv(agents[i].turnover * agents[i].tax_rate, PScale)
                                  * (PScale - agents[i].propensity),
                               PScale)])

\* C14 witness: a record collected after a tick for two agents of different
\* size, group and sector, with a gap in both
C14_Witness ==
    /\ Len(dashboard.steps) = 3
    /\ LET tg == dashboard.steps[3].tax_gap
       IN  /\ Cardinality(DOMAIN tg.by_size) = 2
           /\ Cardinality(DOMAIN tg.by_sector) = 2
           /\ \A k \in DOMAIN tg.by_size : tg.by_size[k].gap > 0
           /\ tg.total_gap > 0

\* the run state when auditing_strategy() returns in the tick about to run
AfterAllocator == auditing_strategy(cfg, BeforeAllocator)

PeerFrom(m, ags, j, r) ==
    communicate_loop([m EXCEPT !.agents = ags], <<j>>, 0, r, "ok").effect

RECURSIVE SteppedBefore(_, _)
SteppedBefore(order, i) ==
    IF order = <<>> \/ Head(order) = i THEN <<>>
    ELSE <<Head(order)>> \o SteppedBefore(Tail(order), i)

\* what communicate() returns to agent i in the tick about to run, when the
\* agents step in the given order
InterCommIn(order, i) ==
    communicate(shuffle_do_step(cfg, grid, AfterAllocator, SteppedBefore(order, i)),
                grid, i).effect

TickAhead == err = "ok" /\ step_count < MaxStep /\ AfterAllocator.err = "ok"

\* C16 (as claimed): the peer contribution an agent computes in a tick is the
\* same whether its neighbours step before or after it
C16_PeerContributionOrderFree ==
    TickAhead =>
        \A i \in Ids : \A o1, o2 \in StepOrders(cfg) :
            InterCommIn(o1, i) = InterCommIn(o2, i)

\* C16 (amended): for the same draws of the generator, what an agent adds for
\* a neighbour is the same whether it is computed from the neighbour's state
\* at the end of the previous tick, after the allocator, or after the
\* neighbour's own step; an audit assigned in the current tick does not show
C16_PeerContributionFromSnapshot ==
    (TickAhead /\ \E i \in Ids : grid[i] # {}) =>
        \A m \in {AfterAllocator} :
            \A done \in {shuffle_do_step(cfg, grid, m, order) : order \in StepOrders(cfg)} :
                \A i \in Ids : \A j \in grid[i] : \A r \in 0..(RngMod - 1) :
                    /\ PeerFrom(m, agents, j, r) = PeerFrom(m, m.agents, j, r)
                    /\ done.err = "ok" =>
                          PeerFrom(m, done.agents, j, r) = PeerFrom(m, agents, j, r)

\* C16 witness: the allocator audits a neighbour in the tick about to run
C16_Witness ==
    /\ TickAhead
    /\ \E i \in Ids : \E j \in grid[i] :
          /\ AfterAllocator.agents[j].last_audit_step = step_count
          /\ agents[j].last_audit_step # step_count

\* the shock the claim gives agent i in the tick about to run: -0.5 when its
\* last audit was in the tick before, nothing otherwise
ShockDue(i) == IF AuditedAt(agents, i, step_count - 1) THEN AuditShock ELSE 0

\* C17: in every tick, what communicate() returns to an agent is what its loop
\* over the neighbours adds to -0.5 if the agent was audited in the tick
\* before and to 0 otherwise, whatever the number of neighbours; an agent
\* without neighbours updates its propensity with exactly that shock
C17_ShockInNextTickOnly ==
    [][(err = "ok" /\ err' = "ok" /\ step_count' = step_count + 1) =>
          \A m \in {AfterAllocator} : \A i \in Ids :
              /\ communicate(m, grid, i)
                    = communicate_loop(m, SeqOfSet(grid[i]), ShockDue(i), m.rng, "ok")
              /\ grid[i] = {} =>
                    agents'[i].propensity
                       = UpdatedPropensity(cfg, m.agents[i], ShockDue(i), m)]_vars

\* C17 witness: an agent without neighbours was audited two ticks ago, so the
\* tick after its audit has run
C17_Witness ==
    /\ err = "ok"
    /\ \E i \in Ids : grid[i] = {} /\ AuditedAt(agents, i, step_count - 2)

\* the ticks between the neighbour's last audit, as the agents stand before
\* the tick about to run, and that tick
TicksSinceAudit(j) == step_count - agents[j].last_audit_step

\* C18 (as claimed): for a neighbour whose last audit was in the tick before,
\* the loop of communicate() adds +0.0005 and draws no random number
C18_BombCraterForFreshAudit ==
    (err = "ok" /\ AfterAllocator.err = "ok") =>
        \A m \in {AfterAllocator} :
            \A i \in Ids : \A j \in grid[i] : \A r \in 0..(RngMod - 1) :
                TicksSinceAudit(j) = 1 =>
                    communicate_loop(m, <<j>>, 0, r, "ok")
                       = [effect |-> BombCrater, rng |-> r, err |-> "ok"]

\* C19 (as claimed): for a neighbour whose last audit was more than 48 and
\* fewer than 105 ticks ago, the loop of communicate() adds a negative
\* contribution, draws no random number and raises nothing
C19_LogDecayForOldAudit ==
    (err = "ok" /\ AfterAllocator.err = "ok") =>
        \A m \in {AfterAllocator} :
            \A i \in Ids : \A j \in grid[i] : \A r \in 0..(RngMod - 1) :
                (TicksSinceAudit(j) > 48 /\ TicksSinceAudit(j) < 105) =>
                    LET got == communicate_loop(m, <<j>>, 0, r, "ok")
                    IN  got.effect < 0 /\ got.rng = r /\ got.err = "ok"

\* the warning effect of the agent's own (size, age) group in run state m, 0
\* when the group is not flagged
OwnGroupWarning(m, a) ==
    IF \E key \in DOMAIN m.sector_warnings : key = <<a.size_cat, a.age_cat>>
    THEN m.sector_warnings[<<a.size_cat, a.age_cat>>] ELSE 0

\* clip01(p + (1 - p) * (audit_impact + global + targeted + peer) - p * decay)
\* with decay 0.95 or 1.05 times decay_factor, in the model's fixed point
ClaimedUpdate(m, a, peer) ==
    LET p     == a.propensity
        decay == RoundDiv(cfg.decay_factor * (IF a.has_advisor THEN 95 ELSE 105), 100)
        gain  == (PScale - p) * (a.audit_impact + m.current_commun + OwnGroupWarning(m, a))
                    + MulDiv(PScale - p, peer, FineScale)
        loss  == MulDiv(p, decay, FineScale)
        next  == RoundDiv(p * PScale + gain - loss, PScale)
    IN  IF next < 0 THEN 0 ELSE IF next > PScale THEN PScale ELSE next

\* C20: in every tick each agent's new propensity is
\* clip01(p + (1 - p) * (audit_impact + global_comm + targeted_comm + peer_comm)
\* - p * decay) for the peer contribution communicate() gave it under some
\* state of the generator, with the advisor's decay and its own group's warning
C20_StepUpdate ==
    [][(err = "ok" /\ err' = "ok" /\ step_count' = step_count + 1) =>
          \A m \in {AfterAllocator} : \A i \in Ids :
              \E r \in 0..(RngMod - 1) :
                  agents'[i].propensity
                     = ClaimedUpdate(m, m.agents[i],
                                     communicate([m EXCEPT !.rng = r], grid, i).effect)]_vars

\* C20 witness: a tick has run in which an agent's group was warned and the
\* agent carried an audit impact
C20_Witness ==
    /\ err = "ok" /\ step_count > 0
    /\ \E i \in Ids :
          /\ OwnGroupWarning(Cur, agents[i]) > 0
          /\ agents[i].audit_impact > 0

\* a Model.step() that returned
TickReturned == err = "ok" /\ err' = "ok" /\ step_count' = step_count + 1

\* the agents the allocator audited in the tick just taken
AuditedInTick == {i \in Ids : agents'[i].last_audit_step = step_count}

TierCosts(tiers) ==
    LET ids == SeqOfSet(DOMAIN tiers)
    IN  SumSeq([k \in DOMAIN ids |-> cfg.audit_types[tiers[ids[k]]].cost])

\* C21: the agents audited in a tick carry the tick as last_audit_step and the
\* effect of one tier each, the cumulative cost has grown over the scheduler's
\* and the warning visits' charges by the costs of those tiers, and the other
\* agents keep their last_audit_step and audit_impact
C21_AuditEffects ==
    [][TickReturned =>
          /\ \E tiers \in [AuditedInTick -> DOMAIN cfg.audit_types] :
                /\ \A i \in AuditedInTick :
                      agents'[i].audit_impact = cfg.audit_types[tiers[i]].effect
                /\ total_compliance_costs'
                      = BeforeAllocator.total_compliance_costs + TierCosts(tiers)
          /\ \A i \in Ids \ AuditedInTick :
                /\ agents'[i].last_audit_step = agents[i].last_audit_step
                /\ agents'[i].audit_impact = agents[i].audit_impact]_vars

\* C21 witness: the campaign tick audited two agents and left another, audited
\* never before, alone
C21_Witness ==
    /\ err = "ok"
    /\ step_count = TaxDeadlineWeek + AuditDelayWeeks + 1
    /\ \E i, j, k \in Ids :
          /\ i # j
          /\ AuditedAt(agents, i, step_count - 1)
          /\ AuditedAt(agents, j, step_count - 1)
          /\ agents[k].last_audit_step = NeverAudited
          /\ agents[k].audit_impact = 0

\* eligible_for_audit of the tick about to run, after rng.shuffle
ShuffledSelection ==
    LET sel == eligible_for_audit(cfg, BeforeAllocator)
    IN  Shuffle(sel.out, sel.rng).out

\* C22: the n agents selected in a tick are split into a random group of
\* floor(n/2) and a targeted group of ceil(n/2) agents, disjoint and together
\* all the agents audited in the tick; a single selected agent is in the
\* targeted group and so gets the Deep tier
C22_SplitInHalves ==
    [][TickReturned =>
          \A sh \in {ShuffledSelection} :
              LET n == Len(sh)
                  R == Range(random_group(sh))
                  T == Range(targeted_group(sh))
              IN  /\ Len(random_group(sh)) = n \div 2
                  /\ Len(targeted_group(sh)) = n - (n \div 2)
                  /\ Cardinality(R) = n \div 2
                  /\ Cardinality(T) = n - (n \div 2)
                  /\ R \cap T = {}
                  /\ R \cup T = AuditedInTick
                  /\ n = 1 =>
                        /\ T = AuditedInTick
                        /\ \A i \in AuditedInTick :
                              agents'[i].audit_impact
                                 = cfg.audit_types["Deep"].effect]_vars

\* C22 witness: the campaign tick audited exactly one agent
C22_Witness ==
    /\ err = "ok"
    /\ step_count = TaxDeadlineWeek + AuditDelayWeeks + 1
    /\ Cardinality({i \in Ids : AuditedAt(agents, i, step_count - 1)}) = 1

\* the targeted group of the tick about to run, as sorted by the allocator
SortedTargets ==
    SortByGroupMean(BeforeAllocator.agents, targeted_group(ShuffledSelection))

\* the group mean the allocator sorts agent i by
RiskKey(i) == compute_group_mean(agents, agents[i].size_cat, agents[i].age_cat)

\* the tier whose effect agent i carries after the tick, and its depth
TierGiven(i) ==
    CHOOSE t \in DOMAIN cfg.audit_types :
        cfg.audit_types[t].effect = agents'[i].audit_impact

Depth(t) == IF t = "Deep" THEN 3 ELSE IF t = "Standard" THEN 2 ELSE 1

\* C23: the targeted group is handled in ascending order of group mean;
\* position i of n_t gets Deep when i < n_t/3, Standard when i < 2*n_t/3 and
\* Light otherwise; so no targeted agent gets a deeper tier than one with a
\* strictly lower group mean, and the sizes of the three blocks differ by at
\* most one
C23_TargetedTiers ==
    [][TickReturned =>
          \A sorted \in {SortedTargets} :
              LET n_t      == Len(sorted)
                  T        == Range(sorted)
                  block(t) == Cardinality({i \in T : TierGiven(i) = t})
              IN  /\ T = Range(targeted_group(ShuffledSelection))
                  /\ \A p, q \in 1..n_t :
                        p < q => RiskKey(sorted[p]) <= RiskKey(sorted[q])
                  /\ \A p \in 1..n_t :
                        TierGiven(sorted[p])
                           = IF 3 * (p - 1) < n_t THEN "Deep"
                             ELSE IF 3 * (p - 1) < 2 * n_t THEN "Standard"
                             ELSE "Light"
                  /\ \A i, j \in T :
                        RiskKey(i) < RiskKey(j) =>
                            Depth(TierGiven(i)) >= Depth(TierGiven(j))
                  /\ \A t1, t2 \in {"Deep", "Standard", "Light"} :
                        block(t1) - block(t2) <= 1]_vars

\* C23 witness: a campaign has audited at least seven agents, so at least four
\* were in the targeted group, and agents of three groups are among them
C23_Witness ==
    /\ err = "ok"
    /\ step_count = TaxDeadlineWeek + AuditDelayWeeks + 1
    /\ Cardinality({i \in Ids : AuditedAt(agents, i, step_count - 1)}) >= 7
    /\ Cardinality({GroupOf(agents[i]) : i \in Ids}) >= 3

\* the key of communication_schedule looked up in the tick about to run
ScheduleKey == TaxDeadlineWeek - (step_count % WeeksPerYear)

\* C24: in every tick the broadcast intensity the agents read is the sum of the
\* effects of the channels listed under tax_deadline_week - (t mod 52), each
\* times the urgency multiplier, and 0 when the schedule has no such key
C24_BroadcastIntensity ==
    [][TickReturned =>
          current_commun'
             = IF ScheduleKey \in DOMAIN cfg.communication_schedule
               THEN (IF ScheduleKey = 1 THEN 2 ELSE 1)
                       * EffectSum(cfg.communication_schedule[ScheduleKey])
               ELSE 0]_vars

\* C24 witness: a broadcast of the second year has been read
C24_Witness ==
    /\ err = "ok"
    /\ step_count > WeeksPerYear
    /\ (step_count - 1) % WeeksPerYear = 0
    /\ current_commun > 0

\* C25: a tick charges N times the cost of every channel listed for it, a
\* channel listed twice being charged twice, and nothing for broadcast when no
\* channel is listed; the rest of the tick's charge is the warning visits' and
\* the allocator's
C25_BroadcastCost ==
    [][TickReturned =>
          /\ Scheduler(cfg, Cur).total_compliance_costs
                = total_compliance_costs + cfg.N * CostSum(ScheduledNow)
          /\ total_compliance_costs'
                = total_compliance_costs + cfg.N * CostSum(ScheduledNow)
                     + WarningCharges(sector_warnings')
                     + (AfterAllocator.total_compliance_costs
                          - BeforeAllocator.total_compliance_costs)]_vars

\* C25 witness: the tick one week before the deadline, whose schedule lists
\* one channel twice, has been charged
C25_Witness ==
    /\ err = "ok"
    /\ step_count = TaxDeadlineWeek
    /\ 1 \in DOMAIN cfg.communication_schedule
    /\ Len(cfg.communication_schedule[1]) = 2
    /\ cfg.communication_schedule[1][1] = cfg.communication_schedule[1][2]
    /\ total_compliance_costs
          >= 2 * cfg.N * cfg.intervention_costs[cfg.communication_schedule[1][1]]

\* the groups whose mean propensity at the start of the tick, 0 for a group
\* without members, is strictly below C_target
BelowTarget ==
    {k \in GroupKeys(cfg) :
        compute_group_mean(agents, k[1], k[2]) < cfg.C_target * FineScale}

FlaggedCharges ==
    SumSeq([n \in DOMAIN GroupSeq(cfg) |->
               IF GroupSeq(cfg)[n] \in BelowTarget
               THEN Cardinality(GroupIds(GroupSeq(cfg)[n]))
                       * cfg.intervention_costs["warning_letter"]
               ELSE 0])

\* C26: in the warning-visit week exactly the groups below C_target are
\* flagged, with the warning_letter effect; their members and only they read
\* it as targeted_comm; the visits charge population times warning_letter cost
\* per flagged group; in every other tick the map is empty when agents step
C26_WarningVisits ==
    [][TickReturned =>
          \A m \in {AfterAllocator} :
              IF step_count % WeeksPerYear = cfg.warning_visit_week
              THEN /\ DOMAIN sector_warnings' = BelowTarget
                   /\ m.sector_warnings = sector_warnings'
                   /\ \A k \in BelowTarget :
                         sector_warnings'[k] = cfg.channel_effects["warning_letter"]
                   /\ \A i \in Ids :
                         TargetedComm(m, m.agents[i])
                            = IF GroupOf(agents[i]) \in BelowTarget
                              THEN cfg.channel_effects["warning_letter"] ELSE 0
                   /\ BeforeAllocator.total_compliance_costs
                         = Scheduler(cfg, Cur).total_compliance_costs + FlaggedCharges
              ELSE /\ sector_warnings' = NoWarnings
                   /\ m.sector_warnings = NoWarnings
                   /\ \A i \in Ids : TargetedComm(m, m.agents[i]) = 0
                   /\ BeforeAllocator.total_compliance_costs
                         = Scheduler(cfg, Cur).total_compliance_costs]_vars

\* C26 witness: the warning-visit week has flagged the group of one agent and
\* not the group of another
C26_Witness ==
    /\ err = "ok" /\ step_count > 0
    /\ (step_count - 1) % WeeksPerYear = cfg.warning_visit_week
    /\ \E i, j \in Ids :
          /\ GroupOf(agents[i]) \in DOMAIN sector_warnings
          /\ GroupOf(agents[j]) \notin DOMAIN sector_warnings

\* the run state at the start of the tick, had an earlier tick left a
\* broadcast intensity and a warning for every group behind
WithLeftovers ==
    [Cur EXCEPT !.current_commun = PScale,
                !.sector_warnings = [k \in GroupKeys(cfg) |-> PScale]]

QuietTick(t) ==
    /\ TaxDeadlineWeek - (t % WeeksPerYear) \notin DOMAIN cfg.communication_schedule
    /\ t % WeeksPerYear # cfg.warning_visit_week

\* C27: the broadcast intensity and the warning map the agents read in a
\* tick do not depend on what an earlier tick left in them; in a tick without
\* a scheduled channel that is not the warning-visit week every agent reads
\* global_comm = 0 and targeted_comm = 0
C27_NoCarryOver ==
    [][TickReturned =>
          \A m \in {AfterAllocator} :
              /\ m.current_commun = current_commun'
              /\ m.sector_warnings = sector_warnings'
              /\ \A left \in {CompanyVisits(cfg, group_counts,
                                            Scheduler(cfg, WithLeftovers))} :
                    /\ left.current_commun = m.current_commun
                    /\ left.sector_warnings = m.sector_warnings
              /\ QuietTick(step_count) =>
                    /\ m.current_commun = 0
                    /\ \A i \in Ids : TargetedComm(m, m.agents[i]) = 0]_vars

\* C27 witness: a quiet tick has run right after a tick with a broadcast
C27_Witness ==
    /\ err = "ok" /\ step_count > 1
    /\ QuietTick(step_count - 1)
    /\ TaxDeadlineWeek - ((step_count - 2) % WeeksPerYear)
          \in DOMAIN cfg.communication_schedule
    /\ current_commun = 0

\* the liability-weighted non-compliance of the agents: sum of liability *
\* (1 - propensity) over the sum of the liabilities
WeightedNoncompliance ==
    LET L(i) == RoundDiv(agents[i].turnover * agents[i].tax_rate, PScale)
        ids  == SeqOfSet(Ids)
        tot  == SumSeq([k \in DOMAIN ids |-> L(ids[k])])
    IN  IF tot = 0 THEN 0
        ELSE RoundDiv(SumSeq([k \in DOMAIN ids |->
                                 L(ids[k]) * (PScale - agents[ids[k]].propensity)]),
                      tot)

\* C28: for the model as built, a calibrated u is in [0, 1]: the quotient
\* tax_gap_target_rate / weighted non-compliance when that is at most 1, 1
\* when it is larger, 0 when the weighted non-compliance is 0; a u given by
\* the caller is kept as given; construction raised nothing
C28_CalibratedUnderpayment ==
    (step_count = 0 /\ construct_err(cfg) = "ok") =>
        /\ err = "ok"
        /\ IF cfg.underpayment_mean_if_noncompliant.given
           THEN underpayment_mean_if_noncompliant
                   = cfg.underpayment_mean_if_noncompliant.value
           ELSE /\ underpayment_mean_if_noncompliant >= 0
                /\ underpayment_mean_if_noncompliant <= PScale
                /\ underpayment_mean_if_noncompliant
                      = IF WeightedNoncompliance = 0 THEN 0
                        ELSE IF cfg.tax_gap_target_rate > WeightedNoncompliance
                        THEN PScale
                        ELSE RoundDiv(cfg.tax_gap_target_rate * PScale,
                                      WeightedNoncompliance)

\* C28 witness: a target above the weighted non-compliance of the agents as
\* built, so the quotient is above 1 and u is 1
C28_Witness ==
    /\ Calibrated /\ err = "ok"
    /\ WeightedNoncompliance > 0
    /\ cfg.tax_gap_target_rate > WeightedNoncompliance
    /\ underpayment_mean_if_noncompliant = PScale

\* u as the constructor left it: given by the caller, or calibrated on the
\* agents as built
ConstructionU == _calibrate_tax_gap_link(cfg, twin.agents)

\* C29: in every state of a run u is the value set at construction, each
\* agent's expected unpaid tax is turnover * tax_rate * (1 - propensity) * u
\* with that value, and the tax-gap rate does not exceed it
C29_UnderpaymentFixed ==
    err = "ok" =>
        /\ underpayment_mean_if_noncompliant = ConstructionU
        /\ \A i \in Ids :
              expected_unpaid_tax(agents[i], underpayment_mean_if_noncompliant)
                 = MulDiv(ConstructionU,
                          RoundDiv(agents[i].turnover * agents[i].tax_rate, PScale)
                             * (PScale - agents[i].propensity),
                          PScale)
        /\ compute_tax_gap_rate(agents, underpayment_mean_if_noncompliant)
              <= ConstructionU

\* C29 witness: ticks have moved a propensity away from its value at
\* construction while u, strictly between 0 and 1, still gives a positive gap
C29_Witness ==
    /\ err = "ok" /\ step_count > TaxDeadlineWeek + AuditDelayWeeks
    /\ underpayment_mean_if_noncompliant > 0
    /\ underpayment_mean_if_noncompliant < PScale
    /\ \E i \in Ids : agents[i].propensity # twin.agents[i].propensity
    /\ compute_tax_gap_rate(agents, underpayment_mean_if_noncompliant) > 0

\* what the step of agent i, taking run state m to m2, leaves alone according
\* to the claim's list
StepFrame(m, m2, i) ==
    /\ m2.total_compliance_costs = m.total_compliance_costs
    /\ m2.step_count = m.step_count
    /\ m2.current_commun = m.current_commun
    /\ m2.sector_warnings = m.sector_warnings
    /\ m2.total_audited_this_step = m.total_audited_this_step
    /\ \A j \in DOMAIN m.agents : j # i => m2.agents[j] = m.agents[j]
    /\ m2.agents[i] = [m.agents[i] EXCEPT !.propensity = m2.agents[i].propensity]

\* the run states in which an agent steps in the tick about to run: agent
\* order[k] after the agents before it in the order
StepsOfTick ==
    {[before |-> shuffle_do_step(cfg, grid, AfterAllocator, SubSeq(order, 1, k - 1)),
      id |-> order[k]] : order \in StepOrders(cfg), k \in 1..cfg.N}

\* C30 (as claimed): an agent's step changes nothing but the agent itself
C30_StepChangesOwnStateOnly ==
    TickAhead =>
        \A s \in StepsOfTick :
            \A m2 \in {AgentStep(cfg, grid, s.before, s.id)} :
                /\ StepFrame(s.before, m2, s.id)
                /\ m2.rng = s.before.rng

\* C30 (amended): an agent's step changes its own propensity and, through the
\* draws of communicate(), the state of the model's generator, and nothing
\* else: not the cost, step_count, the broadcast intensity, the warning map,
\* the audited fraction or another agent; so the cost after the agents'
\* steps is the cost the scheduler, the warning visits and the allocator left
C30_StepChangesSelfAndGenerator ==
    TickAhead =>
        \A s \in StepsOfTick :
            \A m2 \in {AgentStep(cfg, grid, s.before, s.id)} :
                /\ StepFrame(s.before, m2, s.id)
                /\ grid[s.id] = {} => m2.rng = s.before.rng

\* C30 witness: ticks have run in which agents with a neighbour stepped: a
\* propensity and the generator have moved
C30_Witness ==
    /\ err = "ok" /\ step_count > 0
    /\ rng # twin.rng
    /\ \E i \in Ids : /\ grid[i] # {}
                      /\ agents[i].propensity # twin.agents[i].propensity

----------------------------------------------------------------------------
\* the attributes an entity is created with
Identity(a) ==
    [size_cat |-> a.size_cat, age_cat |-> a.age_cat, has_advisor |-> a.has_advisor,
     turnover |-> a.turnover, tax_rate |-> a.tax_rate]

LiveCount(key) == Cardinality({i \in Ids : GroupOf(agents[i]) = key})

\* C31: no Model.step() changes an entity's size category, age category,
\* advisor flag, turnover or tax rate, the set of entities or the network, so
\* in every state group_counts holds the live number of members of every
\* (size, age) group
C31_IdentityAndNetworkFixed ==
    /\ [](\A key \in GroupKeys(cfg) : GroupCount(group_counts, key) = LiveCount(key))
    /\ [][/\ DOMAIN agents' = DOMAIN agents
          /\ \A i \in Ids : Identity(agents'[i]) = Identity(agents[i])
          /\ grid' = grid
          /\ group_counts' = group_counts]_vars

C31_Witness ==
    /\ err = "ok" /\ step_count > audit_week(cfg)
    /\ \E i \in Ids : agents[i].last_audit_step # NeverAudited
    /\ \E i \in Ids : agents[i].propensity # twin.agents[i].propensity
    /\ \E i \in Ids : grid[i] # {}
    /\ \E k1, k2 \in GroupKeys(cfg) :
          k1 # k2 /\ LiveCount(k1) > 0 /\ LiveCount(k2) > 0
    /\ \A i \in Ids : Identity(agents[i]) = Identity(twin.agents[i])

----------------------------------------------------------------------------
\* the members of a group that the cooldown excludes in the coming tick
Excluded(key) == GroupIds(key) \ EligibleIds(key)

AuditedOneOrTwoYearsAgo(i) ==
    agents[i].last_audit_step
        \in {step_count - WeeksPerYear, step_count - 2 * WeeksPerYear}

AuditedThreeYearsAgo(i) ==
    agents[i].last_audit_step = step_count - 3 * WeeksPerYear

NotAuditedNow(i) == agents'[i].last_audit_step = agents[i].last_audit_step

\* what C32 says of every group and what holds for it: an entity audited one
\* or two campaigns ago is left out, one audited three campaigns ago is
\* taken again when its whole group is asked for
CooldownBetweenCampaigns ==
    /\ \A i \in Ids : AuditedOneOrTwoYearsAgo(i) => NotAuditedNow(i)
    /\ \A i \in Ids :
          (/\ AuditedThreeYearsAgo(i)
           /\ RequestedAudits(GroupOf(agents[i]))
                 >= Cardinality(GroupIds(GroupOf(agents[i])))) =>
              agents'[i].last_audit_step = step_count

\* C32 (as claimed): in a campaign tick an entity audited 52 or 104 ticks ago
\* is not audited and one audited 156 ticks ago is eligible again, and a group
\* has fewer than round(rate * group size) entities audited only when the
\* cooldown excludes one of its members
C32_ShortfallOnlyFromCooldown ==
    [][(IsCampaignTick /\ err = "ok" /\ step_count < LongMaxStep) =>
         /\ CooldownBetweenCampaigns
         /\ \A key \in LiveGroups :
               Cardinality(AuditedNow(key)) < RequestedAudits(key) =>
                   Excluded(key) # {}]_vars

\* C32 (amended): the same, where a group has fewer than round(rate * group
\* size) entities audited only when the cooldown excludes one of its members
\* or the rate asks for more entities than the group has; in both cases every
\* member that is not excluded is audited
C32_ShortfallFromCooldownOrGroupSize ==
    [][(IsCampaignTick /\ err = "ok" /\ step_count < LongMaxStep) =>
         /\ CooldownBetweenCampaigns
         /\ \A key \in LiveGroups :
               Cardinality(AuditedNow(key)) < RequestedAudits(key) =>
                   /\ \/ Excluded(key) # {}
                      \/ RequestedAudits(key) > Cardinality(GroupIds(key))
                   /\ AuditedNow(key) = EligibleIds(key)]_vars

\* C32 witness: the fourth campaign has audited again an entity of a group of
\* which another member, audited in the second campaign, was still excluded
C32_Witness ==
    /\ step_count = audit_week(cfg) + 3 * WeeksPerYear + 1
    /\ \E i, j \in Ids :
          /\ GroupOf(agents[i]) = GroupOf(agents[j])
          /\ AuditedAt(agents, i, audit_week(cfg) + 3 * WeeksPerYear)
          /\ AuditedAt(agents, j, audit_week(cfg) + WeeksPerYear)

----------------------------------------------------------------------------
\* last_audit_step is the sentinel or one of the ticks 0..latest
AuditTickUpTo(a, latest) ==
    a.last_audit_step = NeverAudited \/ a.last_audit_step \in 0..latest

\* C33: every entity's last_audit_step is the sentinel -999 or a tick index,
\* at most step_count while a tick is in progress (after the allocator, and in
\* a tick that an exception ended) and below step_count once Model.step() has
\* returned; no tick lowers it; a never-audited entity passes the eligibility
\* test in every tick from tick 0
C33_LastAuditStep ==
    /\ [](\A i \in Ids :
            /\ AuditTickUpTo(agents[i], step_count)
            /\ err = "ok" => AuditTickUpTo(agents[i], step_count - 1)
            /\ agents[i].last_audit_step = NeverAudited =>
                   /\ Eligible(Cur, agents[i])
                   /\ i \in Range(group_eligible(Cur, GroupOf(agents[i]))))
    /\ [](\A m \in {BeforeAllocator} :
            (err = "ok" /\ m.err = "ok") =>
               \A after \in {auditing_strategy(cfg, m)} : \A i \in Ids :
                  /\ AuditTickUpTo(after.agents[i], step_count)
                  /\ after.agents[i].last_audit_step >= m.agents[i].last_audit_step)
    /\ [][\A i \in Ids :
             agents'[i].last_audit_step >= agents[i].last_audit_step]_vars

\* C33 witness: after the fourth campaign one entity carries its second audit
\* tick and another has never been audited
C33_Witness ==
    /\ err = "ok"
    /\ step_count = audit_week(cfg) + 3 * WeeksPerYear + 1
    /\ \E i, j \in Ids :
          /\ agents[i].last_audit_step = step_count - 1
          /\ agents[j].last_audit_step = NeverAudited

----------------------------------------------------------------------------
\* every configured channel cost and tier cost is >= 0
NonNegativeCosts(c) ==
    /\ \A ch \in DOMAIN c.intervention_costs : c.intervention_costs[ch] >= 0
    /\ \A tier \in DOMAIN c.audit_types : c.audit_types[tier].cost >= 0

\* the coming tick has no scheduled channel, is not the warning-visit week and
\* is not the campaign week
NothingCharged ==
    /\ ScheduledNow = <<>>
    /\ step_count % WeeksPerYear # cfg.warning_visit_week
    /\ ~IsCampaignTick

\* C34: with non-negative channel and tier costs no tick lowers
\* total_compliance_costs, and a tick without a scheduled channel that is
\* neither the warning-visit week nor the campaign week leaves it unchanged
C34_CostMonotone ==
    [][NonNegativeCosts(cfg) =>
          /\ total_compliance_costs' >= total_compliance_costs
          /\ NothingCharged => total_compliance_costs' = total_compliance_costs]_vars

\* C34 witness: a year has passed in which channels, warning visits and audits
\* were charged, and the last tick charged nothing
C34_Witness ==
    /\ err = "ok"
    /\ step_count = WeeksPerYear
    /\ NonNegativeCosts(cfg)
    /\ cfg.communication_schedule # ScheduleEmpty
    /\ \E i \in Ids : agents[i].last_audit_step = audit_week(cfg)
    /\ \E tier \in DOMAIN cfg.audit_types :
          total_compliance_costs
              > cfg.audit_types[tier].cost * cfg.N
                  + cfg.N * 4 * (cfg.intervention_costs["email"]
                                   + cfg.intervention_costs["physical_letter"])
    /\ current_commun = 0
    /\ sector_warnings = NoWarnings

----------------------------------------------------------------------------
\* the schedule keys k with t mod 52 = tax_deadline_week - k for the coming
\* tick t: at most one
DueKeys ==
    {k \in DOMAIN cfg.communication_schedule :
        step_count % WeeksPerYear = tax_deadline_week(cfg) - k}

DueChannels ==
    IF DueKeys = {} THEN <<>>
    ELSE cfg.communication_schedule[CHOOSE k \in DueKeys : TRUE]

\* keys that no week of the year reaches
NeverDueKeys ==
    {k \in DOMAIN cfg.communication_schedule :
        \/ k > tax_deadline_week(cfg)
        \/ k < tax_deadline_week(cfg) - (WeeksPerYear - 1)}

\* C35: a tick t broadcasts and charges the channels of the entry with key k
\* exactly when t mod 52 = tax_deadline_week - k, and nothing when there is no
\* such entry; an entry with k > tax_deadline_week or k < tax_deadline_week - 51
\* is due in no tick, and no tick raises or charges for it, even when it lists
\* a channel that has no effect and no cost configured
C35_ScheduleActivation ==
    /\ [](err = "ok" /\ DueKeys \cap NeverDueKeys = {})
    /\ [][/\ step_count' = step_count + 1
          /\ \A ch \in Range(DueChannels) :
                ch \in DOMAIN cfg.channel_effects \cap DOMAIN cfg.intervention_costs
          /\ current_commun'
                = EffectSum(DueChannels)
                    * (IF tax_deadline_week(cfg) - (step_count % WeeksPerYear) = 1
                       THEN 2 ELSE 1)
          /\ total_compliance_costs'
                = total_compliance_costs + cfg.N * CostSum(DueChannels)
                     + WarningCharges(sector_warnings')
                     + (AfterAllocator.total_compliance_costs
                          - BeforeAllocator.total_compliance_costs)]_vars

\* C35 witness: a year has passed with an entry that was never due, and the
\* first tick of the second year has broadcast the entry due in week 0
C35_Witness ==
    /\ err = "ok"
    /\ step_count = WeeksPerYear + 1
    /\ NeverDueKeys # {}
    /\ \E k \in DOMAIN cfg.communication_schedule :
          /\ k = tax_deadline_week(cfg)
          /\ current_commun = EffectSum(cfg.communication_schedule[k])
          /\ current_commun > 0

----------------------------------------------------------------------------
\* tax_deadline_week + audit_delay_weeks is no week of the year
CampaignWeekOutOfRange ==
    cfg.tax_deadline_week + cfg.audit_delay_weeks \notin 0..(WeeksPerYear - 1)

\* C36: when tax_deadline_week + audit_delay_weeks is outside 0..51 no tick is
\* a campaign tick: the allocator of every tick selects nobody, changes no
\* entity and charges nothing, so no entity is ever audited, the audited
\* fraction stays 0 and no tick raises; a sum of 0 or of 51 still gives a
\* campaign in that week
C36_NoCampaignOutsideTheYear ==
    /\ ("tax_deadline_week" \in DOMAIN cfg /\ CampaignWeekOutOfRange) =>
          /\ err = "ok"
          /\ total_audited_this_step = 0
          /\ \A i \in Ids : /\ agents[i].last_audit_step = NeverAudited
                            /\ agents[i].audit_impact = 0
          /\ \A m \in {BeforeAllocator} : \A after \in {auditing_strategy(cfg, m)} :
                /\ m.err = "ok" /\ after.err = "ok"
                /\ after.agents = m.agents
                /\ after.total_compliance_costs = m.total_compliance_costs
                /\ after.total_audited_this_step = 0
    /\ ("tax_deadline_week" \in DOMAIN cfg /\ ~CampaignWeekOutOfRange
           /\ step_count > cfg.tax_deadline_week + cfg.audit_delay_weeks) =>
          \E i \in Ids : agents[i].last_audit_step
                             = cfg.tax_deadline_week + cfg.audit_delay_weeks

\* C36 witness: more than a year has passed with audit rates of 1 and broadcast
\* costs accrued, and nobody has been audited
C36_Witness ==
    /\ "tax_deadline_week" \in DOMAIN cfg /\ CampaignWeekOutOfRange
    /\ err = "ok"
    /\ step_count = CalendarMaxStep
    /\ \A key \in LiveGroups : BaseRate(cfg, key) = PScale
    /\ total_compliance_costs > 0
    /\ \A i \in Ids : agents[i].last_audit_step = NeverAudited

----------------------------------------------------------------------------
\* the tier names the targeted group of n_t entities looks up
NamesLookedUp(n_t) ==
    {"Deep"} \cup (IF n_t >= 2 THEN {"Standard"} ELSE {})
             \cup (IF n_t >= 3 THEN {"Light"} ELSE {})

\* the coming tick is a campaign tick that selects at least one entity
CampaignSelects ==
    /\ err = "ok" /\ step_count < MaxStep
    /\ step_count % WeeksPerYear = audit_week(cfg)
    /\ ShuffledSelection # <<>>

\* a campaign tick that selects somebody returns only if the tier table has
\* the names the targeted group looks up, and otherwise ends in an exception
RaisesUnlessNamesConfigured(sh) ==
    /\ err' = "ok" =>
          NamesLookedUp(Len(targeted_group(sh))) \subseteq DOMAIN cfg.audit_types
    /\ err' # "ok" =>
          /\ ~(NamesLookedUp(Len(targeted_group(sh))) \subseteq DOMAIN cfg.audit_types)
          /\ step_count' = step_count

\* what the tick that raised has charged: the tiers of the entities it audited
ChargedForAudited ==
    \E tiers \in [AuditedInTick -> DOMAIN cfg.audit_types] :
        /\ \A i \in AuditedInTick :
              agents'[i].audit_impact = cfg.audit_types[tiers[i]].effect
        /\ total_compliance_costs'
              = BeforeAllocator.total_compliance_costs + TierCosts(tiers)

\* C37 (as claimed): a campaign tick that selects at least one entity returns
\* without error only if the tier table has Deep, Standard for a targeted
\* group of two or more and Light for one of three or more; when a name is
\* missing the tick raises after every entity of the random group has been
\* audited and charged
C37_FailsAfterRandomAudits ==
    [][CampaignSelects =>
          \A sh \in {ShuffledSelection} :
             /\ RaisesUnlessNamesConfigured(sh)
             /\ err' # "ok" =>
                   /\ Range(random_group(sh)) \subseteq AuditedInTick
                   /\ ChargedForAudited]_vars

\* C37 (amended): the same, where the tick raises KeyError after the audits of
\* the random group when the tier table is not empty; with an empty table and
\* a random group that is not empty, choosing the tier of the first random
\* audit raises ValueError and no entity has been audited or charged
C37_FailsAfterRandomAuditsUnlessNoTier ==
    [][CampaignSelects =>
          \A sh \in {ShuffledSelection} :
             /\ RaisesUnlessNamesConfigured(sh)
             /\ (err' # "ok" /\ (DOMAIN cfg.audit_types # {} \/ random_group(sh) = <<>>)) =>
                   /\ err' = "KeyError"
                   /\ Range(random_group(sh)) \subseteq AuditedInTick
                   /\ ChargedForAudited
             /\ (DOMAIN cfg.audit_types = {} /\ random_group(sh) # <<>>) =>
                   /\ err' = "ValueError"
                   /\ AuditedInTick = {}
                   /\ agents' = agents
                   /\ total_compliance_costs'
                         = BeforeAllocator.total_compliance_costs]_vars

\* C37 witness: a campaign tick has raised KeyError with an entity of the
\* random half and one of the targeted half audited and charged, and another
\* entity not audited
C37_Witness ==
    /\ err = "KeyError"
    /\ step_count = audit_week(cfg)
    /\ "Deep" \in DOMAIN cfg.audit_types
    /\ \E i, j, k \in Ids :
          /\ i # j
          /\ AuditedAt(agents, i, step_count)
          /\ AuditedAt(agents, j, step_count)
          /\ agents[j].audit_impact = cfg.audit_types["Deep"].effect
          /\ agents[k].last_audit_step = NeverAudited
    /\ total_compliance_costs > cfg.audit_types["Deep"].cost

----------------------------------------------------------------------------
\* the group means of a population, as the targeted sort and the warning-visit
\* check compute them
RiskKeys(ags) ==
    [key \in GroupKeys(cfg) |-> compute_group_mean(ags, key[1], key[2])]

\* the run state when targeted_group.sort is called: the random group has been
\* audited
AtTargetedSort(m) ==
    LET sel == eligible_for_audit(cfg, m)
        sh  == Shuffle(sel.out, sel.rng)
    IN  AuditRandomGroup(cfg, [m EXCEPT !.rng = sh.rng], random_group(sh.out))

\* C38: the allocator changes no entity's propensity, so the group means are
\* the same before the allocator (where the warning-visit check of the tick
\* read them), when the targeted group is sorted and after the last audit:
\* the values the previous tick left
C38_RiskKeysFixedInTick ==
    \A m \in {BeforeAllocator} :
       (err = "ok" /\ step_count < MaxStep /\ m.err = "ok") =>
          \A sorting \in {AtTargetedSort(m)} : \A after \in {auditing_strategy(cfg, m)} :
             /\ \A i \in Ids :
                   /\ m.agents[i].propensity = agents[i].propensity
                   /\ sorting.agents[i].propensity = agents[i].propensity
                   /\ after.agents[i].propensity = agents[i].propensity
             /\ RiskKeys(m.agents) = RiskKeys(agents)
             /\ RiskKeys(sorting.agents) = RiskKeys(agents)
             /\ RiskKeys(after.agents) = RiskKeys(agents)

\* C38 witness: the campaign tick was also the warning-visit week and audited
\* three entities of more than one group, one of them with an effect
C38_Witness ==
    /\ err = "ok"
    /\ step_count = audit_week(cfg) + 1
    /\ cfg.warning_visit_week = audit_week(cfg)
    /\ \A i \in Ids : AuditedAt(agents, i, audit_week(cfg))
    /\ \E i, j \in Ids : GroupOf(agents[i]) # GroupOf(agents[j])
    /\ Cardinality(Ids) >= 3

====
